---- MODULE Spec2Model ----
(***************************************************************************)
(* The natural-language-to-SQL query engine of the cashflow backend        *)
(* (app/services/nlq_service.py, class NLQService): the SQL safety         *)
(* validator, SQL generation through the text-generation provider, query   *)
(* execution and the Query Log.                                            *)
(*                                                                         *)
(* Text.  TLC cannot look inside a string, and the validator upper-cases,  *)
(* lower-cases and substring-scans SQL text.  Every SQL identifier,        *)
(* keyword, function name and sqlglot class name is therefore a tuple of   *)
(* one-character strings: <<"S","u","m">> is the Python string "Sum".      *)
(*                                                                         *)
(* Syntax trees.  sqlglot.parse turns a SQL string into a list of          *)
(* expression trees.  A node is a record:                                  *)
(*   cls          the node's sqlglot class name (type(node).__name__)       *)
(*   this         its identifier: table name, column name, function name   *)
(*                of an Anonymous call, text of a Literal; the side of a   *)
(*                Join (LEFT) and the direction of an Ordered (DESC)       *)
(*   table        the qualifier of a Column (<<>> when unqualified)        *)
(*   db           the schema qualifier of a Table (<<>> when absent)       *)
(*   alias        node.alias (<<>> when absent)                            *)
(*   expressions  the select list of a Select                              *)
(*   args         the node's other child expressions, in args order        *)
(* A SQL string is identified with what the parser makes of it: a record   *)
(* [parses |-> BOOLEAN, statements |-> sequence of trees].                 *)
(***************************************************************************)
EXTENDS Integers, Sequences, FiniteSets, TLC

VARIABLES
    pc,            \* position of the request inside execute_query
    nreq,          \* requests started so far
    llm_provider,  \* self.llm_provider
    openai_client, \* self.openai_client is set
    anthropic_client, \* self.anthropic_client is set
    query,         \* the question of the current request
    parameters,    \* its parameters: date_from, date_to, limit
    sql,           \* the candidate SQL of the current request
    intent,        \* second component of generate_sql's result
    results,       \* rows fetched by the current request
    exc,           \* the exception caught by execute_query's except clause
    raised,        \* the exception that left execute_query
    ret,           \* the value execute_query returned
    log,           \* the nlq_queries table: the Query Log
    txn_aborted,   \* the session's database transaction is in the failed state
    llm_calls,     \* history: SQL-generation provider calls of this request
    llm_outcome,   \* history: how _generate_sql_with_llm ended in this request
    validated,     \* history: <<sql, is_safe>> of each validator run of this request
    executed,      \* history: SQL strings handed to self.db.execute in this request
    connection,    \* the quickbooks_connections row: is_active, sync_status, sync_error
    sync_log,      \* the quickbooks_sync_logs row of each background sync
    transactions_rows, \* the committed rows of transactions that came from QuickBooks
    vendors_rows,  \* the names of the committed rows of vendors
    sync,          \* each background sync: its position, statistics and session
    disconnect_response \* the message of the last answer of DELETE /connections/{id}

vars == <<pc, nreq, llm_provider, openai_client, anthropic_client, query, parameters,
          sql, intent, results, exc, raised, ret, log, txn_aborted, llm_calls,
          llm_outcome, validated, executed, connection, sync_log, transactions_rows,
          vendors_rows, sync, disconnect_response>>

(***************************************************************************)
(* Bounds of the model.                                                    *)
(***************************************************************************)
\* requests handled in one behaviour
MaxRequests == 2
\* longest select list of the generated validator inputs
MaxSelectList == 2
\* background syncs of one connection in one behaviour
MaxSyncs == 2
\* most items one sync fetches
MaxBatch == 2
\* most words in a question handed to the classifier
MaxWords == 2

(***************************************************************************)
(* Python string operations on character tuples.                           *)
(***************************************************************************)
LowerLetters == <<"a","b","c","d","e","f","g","h","i","j","k","l","m","n","o","p","q","r","s","t","u","v","w","x","y","z">>
UpperLetters == <<"A","B","C","D","E","F","G","H","I","J","K","L","M","N","O","P","Q","R","S","T","U","V","W","X","Y","Z">>

\* str.upper() and str.lower() on one character
UpperOf == [c \in {LowerLetters[i] : i \in 1..Len(LowerLetters)} |->
              UpperLetters[CHOOSE i \in 1..Len(LowerLetters) : LowerLetters[i] = c]]
LowerOf == [c \in {UpperLetters[i] : i \in 1..Len(UpperLetters)} |->
              LowerLetters[CHOOSE i \in 1..Len(UpperLetters) : UpperLetters[i] = c]]
UpperChar(c) == IF c \in DOMAIN UpperOf THEN UpperOf[c] ELSE c
LowerChar(c) == IF c \in DOMAIN LowerOf THEN LowerOf[c] ELSE c

\* str.upper() and str.lower(), as tuples (the concatenation yields a tuple)
Upper(s) == [i \in 1..Len(s) |-> UpperChar(s[i])] \o <<>>
Lower(s) == [i \in 1..Len(s) |-> LowerChar(s[i])] \o <<>>

\* Python's `k in s` on strings
IsSubstring(k, s) ==
    \/ k = <<>>
    \/ \E i \in 1..(Len(s) - Len(k) + 1) :
          s[i] = k[1] /\ SubSeq(s, i, i + Len(k) - 1) = k

\* " ".join(tokens)
RECURSIVE JoinTokens(_)
JoinTokens(tokens) ==
    IF tokens = <<>> THEN <<>>
    ELSE IF Len(tokens) = 1 THEN tokens[1]
    ELSE tokens[1] \o <<" ">> \o JoinTokens(Tail(tokens))

(***************************************************************************)
(* The whitelists (class attributes of NLQService).                        *)
(***************************************************************************)
ALLOWED_SCHEMA ==
    (<<"t","r","a","n","s","a","c","t","i","o","n","s">> :> {
        <<"i","d">>, <<"t","r","a","n","s","a","c","t","i","o","n","_","d","a","t","e">>, <<"v","e","n","d","o","r","_","i","d">>, <<"a","m","o","u","n","t">>, <<"c","a","t","e","g","o","r","y">>,
        <<"n","o","r","m","a","l","i","z","e","d","_","d","e","s","c","r","i","p","t","i","o","n">>, <<"r","a","w","_","d","e","s","c","r","i","p","t","i","o","n">>, <<"s","o","u","r","c","e">>, <<"s","o","u","r","c","e","_","t","y","p","e">>,
        <<"s","t","a","t","e","m","e","n","t","_","i","d">>, <<"q","u","i","c","k","b","o","o","k","s","_","i","d">>, <<"q","u","i","c","k","b","o","o","k","s","_","c","o","n","n","e","c","t","i","o","n","_","i","d">>,
        <<"q","u","i","c","k","b","o","o","k","s","_","s","y","n","c","_","v","e","r","s","i","o","n">>, <<"c","r","e","a","t","e","d","_","a","t">>, <<"u","p","d","a","t","e","d","_","a","t">>})
    @@ (<<"v","e","n","d","o","r","s">> :> {
        <<"i","d">>, <<"n","a","m","e">>, <<"n","o","r","m","a","l","i","z","e","d","_","n","a","m","e">>, <<"e","m","b","e","d","d","i","n","g">>, <<"c","r","e","a","t","e","d","_","a","t">>, <<"u","p","d","a","t","e","d","_","a","t">>})
    @@ (<<"s","t","a","t","e","m","e","n","t","s">> :> {
        <<"i","d">>, <<"s","o","u","r","c","e","_","f","i","l","e">>, <<"p","e","r","i","o","d","_","s","t","a","r","t">>, <<"p","e","r","i","o","d","_","e","n","d">>,
        <<"a","c","c","o","u","n","t","_","t","y","p","e">>, <<"p","r","o","c","e","s","s","e","d","_","a","t">>, <<"c","r","e","a","t","e","d","_","a","t">>})
    @@ (<<"a","n","o","m","a","l","i","e","s">> :> {
        <<"i","d">>, <<"t","r","a","n","s","a","c","t","i","o","n","_","i","d">>, <<"a","n","o","m","a","l","y","_","t","y","p","e">>, <<"s","e","v","e","r","i","t","y">>, <<"d","e","s","c","r","i","p","t","i","o","n">>,
        <<"e","x","p","e","c","t","e","d","_","v","a","l","u","e">>, <<"a","c","t","u","a","l","_","v","a","l","u","e">>, <<"c","o","n","f","i","d","e","n","c","e">>, <<"d","e","t","e","c","t","e","d","_","a","t">>,
        <<"r","e","s","o","l","v","e","d","_","a","t">>, <<"n","o","t","e","s">>})
    @@ (<<"n","l","q","_","q","u","e","r","i","e","s">> :> {
        <<"i","d">>, <<"u","s","e","r","_","q","u","e","r","y">>, <<"g","e","n","e","r","a","t","e","d","_","s","q","l">>, <<"p","a","r","a","m","e","t","e","r","s">>, <<"e","x","e","c","u","t","i","o","n","_","t","i","m","e","_","m","s">>,
        <<"r","e","s","u","l","t","_","c","o","u","n","t">>, <<"e","r","r","o","r","_","m","e","s","s","a","g","e">>, <<"e","x","e","c","u","t","e","d","_","s","u","c","c","e","s","s","f","u","l","l","y">>, <<"c","r","e","a","t","e","d","_","a","t">>})

ALLOWED_FUNCTIONS == {
    <<"S","U","M">>, <<"C","O","U","N","T">>, <<"A","V","G">>, <<"M","I","N">>, <<"M","A","X">>,
    <<"D","A","T","E","_","T","R","U","N","C">>, <<"D","A","T","E","T","R","U","N","C">>, <<"E","X","T","R","A","C","T">>, <<"N","O","W">>, <<"C","U","R","R","E","N","T","_","D","A","T","E">>, <<"C","U","R","R","E","N","T","D","A","T","E">>,
    <<"C","U","R","R","E","N","T","_","T","I","M","E","S","T","A","M","P">>, <<"C","U","R","R","E","N","T","T","I","M","E","S","T","A","M","P">>, <<"D","A","T","E">>, <<"I","N","T","E","R","V","A","L">>,
    <<"U","P","P","E","R">>, <<"L","O","W","E","R">>, <<"L","E","N","G","T","H">>, <<"C","O","A","L","E","S","C","E">>, <<"T","R","I","M">>, <<"C","O","N","C","A","T">>,
    <<"A","B","S">>, <<"R","O","U","N","D">>, <<"F","L","O","O","R">>, <<"C","E","I","L">>,
    <<"S","u","m">>, <<"C","o","u","n","t">>, <<"A","v","g">>, <<"M","i","n">>, <<"M","a","x">>,
    <<"D","a","t","e","T","r","u","n","c">>, <<"E","x","t","r","a","c","t">>, <<"N","o","w">>, <<"C","u","r","r","e","n","t","D","a","t","e">>, <<"C","u","r","r","e","n","t","T","i","m","e","s","t","a","m","p">>,
    <<"U","p","p","e","r">>, <<"L","o","w","e","r">>, <<"C","o","a","l","e","s","c","e">>, <<"A","b","s">>, <<"R","o","u","n","d">>, <<"T","r","i","m">>, <<"C","o","n","c","a","t">>,
    <<"F","l","o","o","r">>, <<"C","e","i","l">>, <<"D","a","t","e">>, <<"I","n","t","e","r","v","a","l">>}

ALLOWED_OPERATORS == {
    <<"A","N","D">>, <<"O","R">>, <<"N","O","T">>, <<"E","Q">>, <<"N","E","Q">>, <<"L","T">>, <<"L","T","E">>, <<"G","T">>, <<"G","T","E">>,
    <<"I","N">>, <<"L","I","K","E">>, <<"B","E","T","W","E","E","N">>, <<"I","S">>, <<"I","S","N","U","L","L">>, <<"N","O","T","N","U","L","L">>,
    <<"A","D","D">>, <<"S","U","B">>, <<"M","U","L">>, <<"D","I","V">>, <<"M","O","D">>, <<"N","E","G">>,
    <<"A","L","I","A","S">>, <<"C","A","S","T">>, <<"C","A","S","E">>, <<"I","F">>, <<"N","U","L","L","I","F">>,
    <<"P","A","R","E","N">>, <<"P","A","R","E","N","T","H","E","S","I","S">>, <<"B","R","A","C","K","E","T">>,
    <<"L","I","T","E","R","A","L">>, <<"B","O","O","L","E","A","N">>, <<"N","U","L","L">>, <<"S","T","A","R">>,
    <<"O","R","D","E","R">>, <<"O","R","D","E","R","B","Y">>, <<"G","R","O","U","P">>, <<"G","R","O","U","P","B","Y">>, <<"L","I","M","I","T">>, <<"O","F","F","S","E","T">>,
    <<"W","H","E","R","E">>, <<"H","A","V","I","N","G">>, <<"J","O","I","N">>, <<"O","N">>, <<"U","S","I","N","G">>,
    <<"S","E","L","E","C","T">>, <<"F","R","O","M">>, <<"T","A","B","L","E">>, <<"C","O","L","U","M","N">>, <<"I","D","E","N","T","I","F","I","E","R">>}

dangerous_keywords == <<
    <<"I","N","S","E","R","T">>, <<"U","P","D","A","T","E">>, <<"D","E","L","E","T","E">>, <<"D","R","O","P">>, <<"C","R","E","A","T","E">>, <<"A","L","T","E","R">>,
    <<"T","R","U","N","C","A","T","E">>, <<"E","X","E","C">>, <<"E","X","E","C","U","T","E">>, <<"U","N","I","O","N">>, <<"U","N","I","O","N"," ","A","L","L">>>>

(***************************************************************************)
(* sqlglot expression trees.                                               *)
(***************************************************************************)
Node(cls, this, table, db, alias, expressions, args) ==
    [cls |-> cls, this |-> this, table |-> table, db |-> db, alias |-> alias,
     expressions |-> expressions, args |-> args]

\* node.args.values(): every child expression of a node
Children(node) == node.expressions \o node.args

\* isinstance(node, sqlglot.expressions.Func): the function classes of the trees
\* modelled here (Anonymous is a subclass of Func)
FuncClasses == {
    <<"A","n","o","n","y","m","o","u","s">>, <<"S","u","m">>, <<"C","o","u","n","t">>, <<"A","v","g">>, <<"D","a","t","e","T","r","u","n","c">>, <<"L","o","w","e","r">>, <<"C","a","s","t">>,
    <<"C","u","r","r","e","n","t","U","s","e","r">>, <<"A","n","d">>}

\* the statement classes that are not a Select
WriteClasses == {<<"I","n","s","e","r","t">>, <<"U","p","d","a","t","e">>, <<"D","e","l","e","t","e">>, <<"D","r","o","p">>, <<"C","r","e","a","t","e">>, <<"A","l","t","e","r">>}

\* every node of a tree, the root included (a plain enumeration of the tree, used to
\* state properties of accepted SQL)
RECURSIVE AllNodes(_)
AllNodes(node) ==
    {node} \cup UNION {AllNodes(Children(node)[i]) : i \in 1..Len(Children(node))}

(***************************************************************************)
(* str(statement): the SQL text sqlglot generates for a tree, as the list  *)
(* of its space-separated tokens.                                          *)
(***************************************************************************)
NonEmpty(tokens) == SelectSeq(tokens, LAMBDA t : t # <<>>)

\* the keyword(s) a node of class cls is written with
Keyword(cls) ==
    CASE cls = <<"S","e","l","e","c","t">> -> <<<<"S","E","L","E","C","T">>>>
      [] cls = <<"F","r","o","m">> -> <<<<"F","R","O","M">>>>
      [] cls = <<"W","h","e","r","e">> -> <<<<"W","H","E","R","E">>>>
      [] cls = <<"G","r","o","u","p">> -> <<<<"G","R","O","U","P">>, <<"B","Y">>>>
      [] cls = <<"O","r","d","e","r">> -> <<<<"O","R","D","E","R">>, <<"B","Y">>>>
      [] cls = <<"H","a","v","i","n","g">> -> <<<<"H","A","V","I","N","G">>>>
      [] cls = <<"L","i","m","i","t">> -> <<<<"L","I","M","I","T">>>>
      [] cls = <<"N","o","t">> -> <<<<"N","O","T">>>>
      [] cls = <<"N","u","l","l">> -> <<<<"N","U","L","L">>>>
      [] cls = <<"W","i","t","h">> -> <<<<"W","I","T","H">>>>
      [] cls = <<"S","u","b","q","u","e","r","y">> -> <<>>
      [] cls = <<"I","n","s","e","r","t">> -> <<<<"I","N","S","E","R","T">>, <<"I","N","T","O">>>>
      [] cls = <<"U","p","d","a","t","e">> -> <<<<"U","P","D","A","T","E">>>>
      [] cls = <<"D","e","l","e","t","e">> -> <<<<"D","E","L","E","T","E">>, <<"F","R","O","M">>>>
      [] cls = <<"D","r","o","p">> -> <<<<"D","R","O","P">>, <<"T","A","B","L","E">>>>
      [] cls = <<"C","r","e","a","t","e">> -> <<<<"C","R","E","A","T","E">>, <<"T","A","B","L","E">>>>
      [] cls = <<"A","l","t","e","r">> -> <<<<"A","L","T","E","R">>, <<"T","A","B","L","E">>>>
      [] cls = <<"S","u","m">> -> <<<<"S","U","M">>>>
      [] cls = <<"C","o","u","n","t">> -> <<<<"C","O","U","N","T">>>>
      [] cls = <<"A","v","g">> -> <<<<"A","V","G">>>>
      [] cls = <<"D","a","t","e","T","r","u","n","c">> -> <<<<"D","A","T","E","_","T","R","U","N","C">>>>
      [] cls = <<"L","o","w","e","r">> -> <<<<"L","O","W","E","R">>>>
      [] cls = <<"C","a","s","t">> -> <<<<"C","A","S","T">>>>
      [] cls = <<"C","u","r","r","e","n","t","U","s","e","r">> -> <<<<"C","U","R","R","E","N","T","_","U","S","E","R">>>>
      [] cls = <<"S","t","a","r">> -> <<<<"*">>>>
      [] OTHER -> <<>>

\* the infix symbol of a binary node
Infix(cls) ==
    CASE cls = <<"E","Q">> -> <<<<"=">>>>
      [] cls = <<"L","T">> -> <<<<"<">>>>
      [] cls = <<"G","T">> -> <<<<">">>>>
      [] cls = <<"L","T","E">> -> <<<<"<","=">>>>
      [] cls = <<"G","T","E">> -> <<<<">","=">>>>
      [] cls = <<"I","s">> -> <<<<"I","S">>>>
      [] cls = <<"A","n","d">> -> <<<<"A","N","D">>>>
      [] cls = <<"I","n">> -> <<<<"I","N">>>>
      [] cls = <<"U","n","i","o","n">> -> <<<<"U","N","I","O","N">>>>
      [] OTHER -> <<>>

RECURSIVE Render(_)
RECURSIVE RenderList(_)
Render(node) ==
    CASE node.cls = <<"T","a","b","l","e">> ->
            NonEmpty(<<node.db, node.this, IF node.alias # <<>> THEN <<"A","S">> ELSE <<>>,
                       node.alias>>)
      [] node.cls = <<"C","o","l","u","m","n">> -> NonEmpty(<<node.table, node.this>>)
      [] node.cls = <<"L","i","t","e","r","a","l">> -> <<node.this>>
      [] node.cls = <<"A","l","i","a","s">> -> RenderList(Children(node)) \o <<<<"A","S">>, node.alias>>
      [] node.cls = <<"C","T","E">> -> <<node.alias, <<"A","S">>>> \o RenderList(Children(node))
      [] node.cls = <<"A","n","o","n","y","m","o","u","s">> -> <<node.this>> \o RenderList(Children(node))
      [] node.cls = <<"O","r","d","e","r","e","d">> -> RenderList(Children(node)) \o NonEmpty(<<node.this>>)
      [] node.cls = <<"J","o","i","n">> -> NonEmpty(<<node.this>>) \o <<<<"J","O","I","N">>>> \o RenderList(Children(node))
      [] Infix(node.cls) # <<>> /\ Len(node.args) = 2 ->
            Render(node.args[1]) \o Infix(node.cls) \o Render(node.args[2])
      [] OTHER -> Keyword(node.cls) \o RenderList(Children(node))
RenderList(nodes) ==
    IF nodes = <<>> THEN <<>> ELSE Render(Head(nodes)) \o RenderList(Tail(nodes))

\* str(statement)
Str(statement) == JoinTokens(Render(statement))

(***************************************************************************)
(* NLQService._contains_dangerous_operations                               *)
(***************************************************************************)
\* mutant: the textual scan finds nothing
no_dangerous_scan(statement) == FALSE

\* mutant: the text is scanned as written, without upper-casing it first
scan_without_upper(statement) ==
    LET sql_str == Str(statement)
    IN \E i \in 1..Len(dangerous_keywords) : IsSubstring(dangerous_keywords[i], sql_str)

_contains_dangerous_operations(statement) ==
    LET sql_str == Upper(Str(statement))
    IN \E i \in 1..Len(dangerous_keywords) : IsSubstring(dangerous_keywords[i], sql_str)

(***************************************************************************)
(* NLQService._validate_table_references                                   *)
(***************************************************************************)
NoAliases == [table_aliases |-> <<>>, column_aliases |-> {}]

\* two dictionary-and-set updates, applied one after the other
Then(a, b) ==
    [table_aliases |-> a.table_aliases \o b.table_aliases,
     column_aliases |-> a.column_aliases \cup b.column_aliases]

\* table_aliases is a dict filled in traversal order: it is kept as the list of its
\* assignments <<alias, table>>, and a later assignment to a key replaces an earlier one
HasKey(table_aliases, key) == \E i \in 1..Len(table_aliases) : table_aliases[i][1] = key
GetOr(table_aliases, key, default) ==
    IF HasKey(table_aliases, key)
    THEN LET last == CHOOSE i \in 1..Len(table_aliases) :
                        /\ table_aliases[i][1] = key
                        /\ \A j \in (i + 1)..Len(table_aliases) : table_aliases[j][1] # key
         IN table_aliases[last][2]
    ELSE default

\* mutant: the first pass collects table aliases only, no select-list alias
RECURSIVE extract_table_aliases_only(_, _)
RECURSIVE extract_table_aliases_only_each(_, _)
extract_table_aliases_only(node, in_select) ==
    LET own ==
          IF node.cls = <<"T","a","b","l","e">>
          THEN LET table_name == Lower(node.this)
                   alias == IF node.alias # <<>> THEN node.alias ELSE table_name
               IN IF alias # <<>>
                  THEN [table_aliases |-> << <<Lower(alias), table_name>> >>,
                        column_aliases |-> {}]
                  ELSE NoAliases
          ELSE NoAliases
    IN Then(own, extract_table_aliases_only_each(Children(node), in_select))
extract_table_aliases_only_each(nodes, in_select) ==
    IF nodes = <<>> THEN NoAliases
    ELSE Then(extract_table_aliases_only(Head(nodes), in_select),
              extract_table_aliases_only_each(Tail(nodes), in_select))

\* the first pass: extract_aliases(node, in_select) over the whole tree
RECURSIVE extract_aliases(_, _)
RECURSIVE extract_aliases_each(_, _)
extract_aliases(node, in_select) ==
    LET own ==
          IF node.cls = <<"T","a","b","l","e">>
          THEN LET table_name == Lower(node.this)
                   alias == IF node.alias # <<>> THEN node.alias ELSE table_name
               IN IF alias # <<>>
                  THEN [table_aliases |-> << <<Lower(alias), table_name>> >>,
                        column_aliases |-> {}]
                  ELSE NoAliases
          ELSE IF node.cls = <<"A","l","i","a","s">> /\ in_select
          THEN IF Lower(node.alias) # <<>>
               THEN [table_aliases |-> <<>>, column_aliases |-> {Lower(node.alias)}]
               ELSE NoAliases
          ELSE IF node.cls = <<"S","e","l","e","c","t">>
          THEN extract_aliases_each(node.expressions, TRUE)
          ELSE NoAliases
    IN Then(own, extract_aliases_each(Children(node), in_select))
extract_aliases_each(nodes, in_select) ==
    IF nodes = <<>> THEN NoAliases
    ELSE Then(extract_aliases(Head(nodes), in_select),
              extract_aliases_each(Tail(nodes), in_select))

\* check_references on a Table node
table_allowed(node) == Lower(node.this) \in DOMAIN ALLOWED_SCHEMA

\* mutant: a qualified column passes whenever its table is whitelisted; an unqualified
\* one is never looked up
column_unchecked(node, aliases) ==
    node.table # <<>> =>
        GetOr(aliases.table_aliases, Lower(node.table), Lower(node.table))
            \in DOMAIN ALLOWED_SCHEMA

\* check_references on a Column node: FALSE where the code returns False
column_allowed(node, aliases) ==
    LET column_name == Lower(node.this)
    IN IF node.table # <<>>
       THEN LET table_ref == Lower(node.table)
                table_name == GetOr(aliases.table_aliases, table_ref, table_ref)
            IN /\ table_name \in DOMAIN ALLOWED_SCHEMA
               /\ ~ ( /\ column_name # <<>>
                      /\ column_name \notin ALLOWED_SCHEMA[table_name]
                      /\ column_name # <<"*">> )
       ELSE IF column_name # <<>> /\ column_name # <<"*">>
            THEN \/ column_name \in aliases.column_aliases
                 \/ \E t \in DOMAIN ALLOWED_SCHEMA : column_name \in ALLOWED_SCHEMA[t]
            ELSE TRUE

\* the second pass: check_references(node)
RECURSIVE check_references(_, _)
RECURSIVE check_references_each(_, _)
check_references(node, aliases) ==
    IF node.cls = <<"T","a","b","l","e">> /\ ~ table_allowed(node) THEN FALSE
    ELSE IF node.cls = <<"C","o","l","u","m","n">> /\ ~ column_allowed(node, aliases) THEN FALSE
    ELSE IF /\ node.cls = <<"C","o","l","u","m","n">>
            /\ node.table = <<>>
            /\ Lower(node.this) # <<>> /\ Lower(node.this) # <<"*">>
            /\ Lower(node.this) \in aliases.column_aliases
    THEN TRUE   \* "is an alias, skipping validation": returns before the children
    ELSE check_references_each(Children(node), aliases)
check_references_each(nodes, aliases) ==
    IF nodes = <<>> THEN TRUE
    ELSE IF ~ check_references(Head(nodes), aliases) THEN FALSE
    ELSE check_references_each(Tail(nodes), aliases)

_validate_table_references(statement) ==
    check_references(statement, extract_aliases(statement, FALSE))

(***************************************************************************)
(* NLQService._validate_function_usage                                     *)
(***************************************************************************)
\* mutant: only Anonymous calls are looked up, built-in function classes pass
function_allowed_anonymous_only(node) ==
    node.cls = <<"A","n","o","n","y","m","o","u","s">> => Upper(node.this) \in ALLOWED_FUNCTIONS

\* check_functions on one node: FALSE where the code returns False
function_allowed(node) ==
    IF node.cls = <<"A","n","o","n","y","m","o","u","s">>
    THEN Upper(node.this) \in ALLOWED_FUNCTIONS
    ELSE IF node.cls \in FuncClasses
    THEN LET func_name == Upper(node.cls)
         IN \/ func_name \in ALLOWED_OPERATORS
            \/ ~ (func_name # <<>> /\ func_name \notin ALLOWED_FUNCTIONS)
    ELSE TRUE

RECURSIVE check_functions(_)
RECURSIVE check_functions_each(_)
check_functions(node) ==
    IF ~ function_allowed(node) THEN FALSE
    ELSE check_functions_each(Children(node))
check_functions_each(nodes) ==
    IF nodes = <<>> THEN TRUE
    ELSE IF ~ check_functions(Head(nodes)) THEN FALSE
    ELSE check_functions_each(Tail(nodes))

_validate_function_usage(statement) == check_functions(statement)

(***************************************************************************)
(* NLQService._validate_sql_safety: returns <<is_safe, error_msg>>         *)
(***************************************************************************)
\* the verdict on one parsed statement: "" when all four checks pass
\* mutant: the table/column walk runs before the dangerous-keyword scan
StatementVerdict_walk_before_scan(statement) ==
    IF statement.cls # <<"S","e","l","e","c","t">> THEN "Only SELECT statements are allowed"
    ELSE IF ~ _validate_table_references(statement)
    THEN "SQL references disallowed tables or columns"
    ELSE IF _contains_dangerous_operations(statement)
    THEN "SQL contains disallowed operations"
    ELSE IF ~ _validate_function_usage(statement) THEN "SQL uses disallowed functions"
    ELSE ""

StatementVerdict(statement) ==
    IF statement.cls # <<"S","e","l","e","c","t">> THEN "Only SELECT statements are allowed"
    ELSE IF _contains_dangerous_operations(statement)
    THEN "SQL contains disallowed operations"
    ELSE IF ~ _validate_table_references(statement)
    THEN "SQL references disallowed tables or columns"
    ELSE IF ~ _validate_function_usage(statement) THEN "SQL uses disallowed functions"
    ELSE ""

\* mutant: the aliases of all statements of the candidate are collected into one
\* map before any statement is checked
StatementVerdictWith(statement, aliases) ==
    IF statement.cls # <<"S","e","l","e","c","t">> THEN "Only SELECT statements are allowed"
    ELSE IF _contains_dangerous_operations(statement)
    THEN "SQL contains disallowed operations"
    ELSE IF ~ check_references(statement, aliases)
    THEN "SQL references disallowed tables or columns"
    ELSE IF ~ _validate_function_usage(statement) THEN "SQL uses disallowed functions"
    ELSE ""
RECURSIVE FirstFailureWith(_, _)
FirstFailureWith(statements, aliases) ==
    IF statements = <<>> THEN ""
    ELSE LET verdict == StatementVerdictWith(Head(statements), aliases)
         IN IF verdict # "" THEN verdict ELSE FirstFailureWith(Tail(statements), aliases)
FirstFailure_shared_aliases(statements) ==
    FirstFailureWith(statements, extract_aliases_each(statements, FALSE))

\* the loop over the parsed statements: the message of the first return, "" when the
\* loop ends without one
RECURSIVE FirstFailure(_)
FirstFailure(statements) ==
    IF statements = <<>> THEN ""
    ELSE LET verdict == StatementVerdict(Head(statements))
         IN IF verdict # "" THEN verdict ELSE FirstFailure(Tail(statements))

_validate_sql_safety(s) ==
    IF ~ s.parses THEN <<FALSE, "SQL validation error">>
    ELSE IF s.statements = <<>> THEN <<FALSE, "Failed to parse SQL">>
    ELSE LET failure == FirstFailure(s.statements)
         IN IF failure # "" THEN <<FALSE, failure>> ELSE <<TRUE, "SQL is safe">>

(***************************************************************************)
(* The SQL strings the model draws from, each given by its parse.          *)
(***************************************************************************)
None == <<>>      \* an absent identifier, qualifier or alias

Tbl(db, name, alias) == Node(<<"T","a","b","l","e">>, name, None, db, alias, <<>>, <<>>)
Col(table, name) == Node(<<"C","o","l","u","m","n">>, name, table, None, None, <<>>, <<>>)
Lit(text) == Node(<<"L","i","t","e","r","a","l">>, text, None, None, None, <<>>, <<>>)
Star == Node(<<"S","t","a","r">>, None, None, None, None, <<>>, <<>>)
\* a call of a function sqlglot has a class for
Fn(cls, args) == Node(cls, None, None, None, None, <<>>, args)
\* a call of a function sqlglot has no class for
Anon(name, args) == Node(<<"A","n","o","n","y","m","o","u","s">>, name, None, None, None, <<>>, args)
As(e, alias) == Node(<<"A","l","i","a","s">>, None, None, None, alias, <<>>, <<e>>)
\* a clause or operator node with the given children
Op(cls, args) == Node(cls, None, None, None, None, <<>>, args)
Sel(expressions, clauses) == Node(<<"S","e","l","e","c","t">>, None, None, None, None, expressions, clauses)
Cte(alias, statement) == Node(<<"C","T","E">>, None, None, None, alias, <<>>, <<statement>>)
\* what sqlglot.parse yields for an empty statement
NoStatement == Node(<<"N","o","n","e","T","y","p","e">>, None, None, None, None, <<>>, <<>>)

Parsed(statements) == [parses |-> TRUE, statements |-> statements]
\* a string sqlglot.parse raises on
Unparseable == [parses |-> FALSE, statements |-> <<>>]

\* ORDER BY e [ASC|DESC]
Ordered(e, direction) == Node(<<"O","r","d","e","r","e","d">>, direction, None, None, None, <<>>, <<e>>)
\* [LEFT] JOIN table ON condition
Join(side, table, on) == Node(<<"J","o","i","n">>, side, None, None, None, <<>>, <<table, on>>)

\* select-list items
ItemPool == <<
    Col(<<"t">>, <<"a","m","o","u","n","t">>),
    Col(<<"t">>, <<"n","a","m","e">>),
    Col(<<"v">>, <<"n","a","m","e">>),
    Col(<<"v">>, <<"a","m","o","u","n","t">>),
    Col(<<"T">>, <<"*">>),
    Col(None, <<"p","a","s","s","w","o","r","d">>),
    Col(None, <<"c","r","e","a","t","e","d","_","a","t">>),
    Col(None, <<"t","o","t","a","l","_","s","p","e","n","t">>),
    As(Fn(<<"S","u","m">>, <<Col(None, <<"a","m","o","u","n","t">>)>>), <<"t","o","t","a","l","_","s","p","e","n","t">>),
    Anon(<<"p","g","_","s","l","e","e","p">>, <<Lit(<<"1","0">>)>>),
    Anon(<<"r","o","u","n","d">>, <<Col(None, <<"A","m","o","u","n","t">>)>>),
    Fn(<<"C","u","r","r","e","n","t","U","s","e","r">>, <<>>) >>

\* FROM clauses
FromPool == {
    <<Op(<<"F","r","o","m">>, <<Tbl(None, <<"t","r","a","n","s","a","c","t","i","o","n","s">>, <<"t">>)>>)>>,
    <<Op(<<"F","r","o","m">>, <<Tbl(None, <<"T","r","a","n","s","a","c","t","i","o","n","s">>, None)>>)>>,
    <<Op(<<"F","r","o","m">>, <<Tbl(None, <<"u","s","e","r","s">>, <<"t">>)>>)>>,
    <<Op(<<"F","r","o","m">>, <<Tbl(<<"p","g","_","t","e","m","p">>, <<"t","r","a","n","s","a","c","t","i","o","n","s">>, <<"t">>)>>)>> }

\* JOIN clauses
JoinPool == {
    <<>>,
    <<Join(None, Tbl(None, <<"v","e","n","d","o","r","s">>, <<"v">>),
           Op(<<"E","Q">>, <<Col(<<"t">>, <<"v","e","n","d","o","r","_","i","d">>), Col(<<"v">>, <<"i","d">>)>>))>>,
    <<Join(<<"L","E","F","T">>, Tbl(None, <<"u","s","e","r","s">>, <<"v">>),
           Op(<<"E","Q">>, <<Col(<<"t">>, <<"v","e","n","d","o","r","_","i","d">>), Col(<<"v">>, <<"i","d">>)>>))>> }

\* subqueries
SubqueryPool == {
    Sel(<<Col(None, <<"i","d">>)>>, <<Op(<<"F","r","o","m">>, <<Tbl(None, <<"v","e","n","d","o","r","s">>, None)>>)>>),
    Sel(<<Col(None, <<"i","d">>)>>, <<Op(<<"F","r","o","m">>, <<Tbl(None, <<"u","s","e","r","s">>, None)>>)>>),
    Sel(<<Col(<<"t">>, <<"i","d">>)>>, <<Op(<<"F","r","o","m">>, <<Tbl(None, <<"v","e","n","d","o","r","s">>, <<"t">>)>>)>>),
    Sel(<<Col(<<"v">>, <<"i","d">>)>>, <<Op(<<"F","r","o","m">>, <<Tbl(None, <<"t","r","a","n","s","a","c","t","i","o","n","s">>, <<"v">>)>>)>>),
    Sel(<<Anon(<<"v","e","r","s","i","o","n">>, <<>>)>>, <<>>),
    Op(<<"U","n","i","o","n">>, <<Sel(<<Col(None, <<"i","d">>)>>, <<Op(<<"F","r","o","m">>, <<Tbl(None, <<"v","e","n","d","o","r","s">>, None)>>)>>),
                   Sel(<<Col(None, <<"i","d">>)>>, <<Op(<<"F","r","o","m">>, <<Tbl(None, <<"s","t","a","t","e","m","e","n","t","s">>, None)>>)>>)>>) }

\* what follows the joins: WHERE, GROUP BY, HAVING, ORDER BY, WITH
TailPool == {
    <<>>,
    <<Op(<<"W","h","e","r","e">>, <<Op(<<"A","n","d">>, <<Op(<<"L","T">>, <<Col(None, <<"a","m","o","u","n","t">>), Lit(<<"0">>)>>),
                                  Op(<<"E","Q">>, <<Lit(<<"1">>), Lit(<<"1">>)>>)>>)>>)>>,
    <<Op(<<"W","h","e","r","e">>, <<Op(<<"E","Q">>, <<Col(None, <<"c","a","t","e","g","o","r","y">>), Lit(<<"c","a","r","d"," ","u","p","d","a","t","e"," ","f","e","e">>)>>)>>)>>,
    <<Op(<<"G","r","o","u","p">>, <<Col(None, <<"c","a","t","e","g","o","r","y">>)>>),
      Op(<<"H","a","v","i","n","g">>, <<Op(<<"G","T">>, <<Col(None, <<"t","o","t","a","l","_","s","p","e","n","t">>), Lit(<<"0">>)>>)>>),
      Op(<<"O","r","d","e","r">>, <<Ordered(Col(None, <<"t","o","t","a","l","_","s","p","e","n","t">>), <<"A","S","C">>)>>)>>,
    <<Op(<<"W","i","t","h">>, <<Cte(<<"v","e","n","d","o","r","s">>, Op(<<"D","e","l","e","t","e">>, <<Tbl(None, <<"t","r","a","n","s","a","c","t","i","o","n","s">>, None)>>))>>)>> }

\* WHERE id IN (subquery)
SubqueryTails ==
    { <<Op(<<"W","h","e","r","e">>, <<Op(<<"I","n">>, <<Col(None, <<"i","d">>), Op(<<"S","u","b","q","u","e","r","y">>, <<q>>)>>)>>)>> :
        q \in SubqueryPool }

\* select lists of up to n items, each choice of items in the order of ItemPool
RECURSIVE SelectListsFrom(_, _)
SelectListsFrom(n, first) ==
    IF n = 0 THEN {<<>>}
    ELSE {<<>>} \cup UNION { {<<ItemPool[i]>> \o rest : rest \in SelectListsFrom(n - 1, i)} :
                                i \in first..Len(ItemPool) }
SelectLists(n) == SelectListsFrom(n, 1)

\* statements that are not a Select
OtherStatements == {
    Op(<<"D","r","o","p">>, <<Tbl(None, <<"t","r","a","n","s","a","c","t","i","o","n","s">>, None)>>),
    Op(<<"D","e","l","e","t","e">>, <<Tbl(None, <<"t","r","a","n","s","a","c","t","i","o","n","s">>, None)>>),
    Op(<<"I","n","s","e","r","t">>, <<Tbl(None, <<"v","e","n","d","o","r","s">>, None)>>),
    Op(<<"U","p","d","a","t","e">>, <<Tbl(None, <<"v","e","n","d","o","r","s">>, None)>>),
    Op(<<"C","r","e","a","t","e">>, <<Tbl(None, <<"v","e","n","d","o","r","s">>, None)>>),
    Op(<<"A","l","t","e","r">>, <<Tbl(None, <<"v","e","n","d","o","r","s">>, None)>>),
    Op(<<"U","n","i","o","n">>, <<Sel(<<Col(None, <<"i","d">>)>>, <<Op(<<"F","r","o","m">>, <<Tbl(None, <<"v","e","n","d","o","r","s">>, None)>>)>>),
                   Sel(<<Col(None, <<"i","d">>)>>, <<Op(<<"F","r","o","m">>, <<Tbl(None, <<"s","t","a","t","e","m","e","n","t","s">>, None)>>)>>)>>),
    NoStatement }

\* the statements candidates of several statements are made of
ScenarioD ==
    Sel(<<Col(None, <<"c","a","t","e","g","o","r","y">>), As(Fn(<<"S","u","m">>, <<Col(None, <<"a","m","o","u","n","t">>)>>), <<"t","o","t","a","l","_","s","p","e","n","t">>)>>,
        <<Op(<<"F","r","o","m">>, <<Tbl(None, <<"t","r","a","n","s","a","c","t","i","o","n","s">>, None)>>),
          Op(<<"G","r","o","u","p">>, <<Col(None, <<"c","a","t","e","g","o","r","y">>)>>),
          Op(<<"O","r","d","e","r">>, <<Ordered(Col(None, <<"t","o","t","a","l","_","s","p","e","n","t">>), <<"A","S","C">>)>>)>>)
ScenarioE ==
    Sel(<<Col(<<"t">>, <<"a","m","o","u","n","t">>), Col(<<"v">>, <<"n","a","m","e">>)>>,
        <<Op(<<"F","r","o","m">>, <<Tbl(None, <<"t","r","a","n","s","a","c","t","i","o","n","s">>, <<"t">>)>>),
          Join(None, Tbl(None, <<"v","e","n","d","o","r","s">>, <<"v">>),
               Op(<<"E","Q">>, <<Col(<<"t">>, <<"v","e","n","d","o","r","_","i","d">>), Col(<<"v">>, <<"i","d">>)>>))>>)
UsersQuery == Sel(<<Star>>, <<Op(<<"F","r","o","m">>, <<Tbl(None, <<"u","s","e","r","s">>, None)>>)>>)
\* SELECT t.amount FROM transactions: t is bound in scenario E, not here
UnboundAliases ==
    Sel(<<Col(<<"t">>, <<"a","m","o","u","n","t">>)>>,
        <<Op(<<"F","r","o","m">>, <<Tbl(None, <<"t","r","a","n","s","a","c","t","i","o","n","s">>, None)>>)>>)
SequencePool ==
    {ScenarioD, ScenarioE, UsersQuery, UnboundAliases,
     Op(<<"D","r","o","p">>, <<Tbl(None, <<"t","r","a","n","s","a","c","t","i","o","n","s">>, None)>>)}

\* SELECT column FROM table
ColumnQuery(table, column) ==
    Parsed(<<Sel(<<Col(None, column)>>, <<Op(<<"F","r","o","m">>, <<Tbl(None, table, None)>>)>>)>>)

\* the inputs of the validator
IsValidatorInput(c) ==
    \/ \E e \in SelectLists(MaxSelectList) \ {<<>>}, f \in FromPool, j \in JoinPool,
          t \in TailPool : c = Parsed(<<Sel(e, f \o j \o t)>>)
    \/ \E e \in SelectLists(MaxSelectList) \ {<<>>}, f \in FromPool, t \in SubqueryTails :
          c = Parsed(<<Sel(e, f \o t)>>)
    \/ \E e \in SelectLists(MaxSelectList) \ {<<>>}, t \in SubqueryTails :
          c = Parsed(<<Sel(e, ScenarioE.args \o t)>>)
    \/ \E table \in DOMAIN ALLOWED_SCHEMA : \E column \in ALLOWED_SCHEMA[table] :
          c = ColumnQuery(table, column)
    \/ \E s \in OtherStatements : c = Parsed(<<s>>)
    \/ \E a \in SequencePool, b \in SequencePool : c = Parsed(<<a, b>>)
    \/ c \in {Parsed(<<>>), Unparseable}

(***************************************************************************)
(* NLQService._classify_query_intent                                       *)
(***************************************************************************)
\* any(word in query_lower for word in words)
AnyIn(words, text) == \E w \in words : IsSubstring(w, text)

\* mutant: the fallback return is missing, the function falls off its end
classify_without_default(question) ==
    LET query_lower == Lower(question)
    IN IF AnyIn({<<"t","o","t","a","l">>, <<"s","u","m">>, <<"s","p","e","n","d">>, <<"s","p","e","n","t">>}, query_lower)
       THEN IF AnyIn({<<"i","n","c","o","m","e">>, <<"r","e","v","e","n","u","e">>, <<"e","a","r","n","e","d">>}, query_lower)
            THEN "total_income" ELSE "total_spend"
       ELSE IF AnyIn({<<"m","o","n","t","h","l","y">>, <<"m","o","n","t","h">>, <<"t","r","e","n","d">>}, query_lower)
       THEN IF AnyIn({<<"i","n","c","o","m","e">>}, query_lower)
            THEN "income_by_month" ELSE "spend_by_month"
       ELSE IF AnyIn({<<"v","e","n","d","o","r">>, <<"m","e","r","c","h","a","n","t">>, <<"c","o","m","p","a","n","y">>}, query_lower) THEN "top_vendors"
       ELSE IF AnyIn({<<"c","a","t","e","g","o","r","y">>}, query_lower) THEN "spend_by_category"
       ELSE IF AnyIn({<<"c","o","u","n","t">>, <<"n","u","m","b","e","r">>, <<"h","o","w"," ","m","a","n","y">>}, query_lower) THEN "transaction_count"
       ELSE IF AnyIn({<<"a","v","e","r","a","g","e">>}, query_lower) THEN "average_transaction"
       ELSE IF AnyIn({<<"r","e","c","e","n","t">>, <<"l","a","t","e","s","t">>, <<"l","a","s","t">>}, query_lower) THEN "recent_transactions"
       ELSE IF AnyIn({<<"a","n","o","m","a","l">>}, query_lower) THEN "anomalies_count"
       ELSE "None"

\* mutant: the anomaly rule is tested before the other rules
classify_anomaly_first(question) ==
    LET query_lower == Lower(question)
    IN IF AnyIn({<<"a","n","o","m","a","l">>}, query_lower) THEN "anomalies_count"
       ELSE IF AnyIn({<<"t","o","t","a","l">>, <<"s","u","m">>, <<"s","p","e","n","d">>, <<"s","p","e","n","t">>}, query_lower)
       THEN IF AnyIn({<<"i","n","c","o","m","e">>, <<"r","e","v","e","n","u","e">>, <<"e","a","r","n","e","d">>}, query_lower)
            THEN "total_income" ELSE "total_spend"
       ELSE IF AnyIn({<<"m","o","n","t","h","l","y">>, <<"m","o","n","t","h">>, <<"t","r","e","n","d">>}, query_lower)
       THEN IF AnyIn({<<"i","n","c","o","m","e">>}, query_lower)
            THEN "income_by_month" ELSE "spend_by_month"
       ELSE IF AnyIn({<<"v","e","n","d","o","r">>, <<"m","e","r","c","h","a","n","t">>, <<"c","o","m","p","a","n","y">>}, query_lower) THEN "top_vendors"
       ELSE IF AnyIn({<<"c","a","t","e","g","o","r","y">>}, query_lower) THEN "spend_by_category"
       ELSE IF AnyIn({<<"c","o","u","n","t">>, <<"n","u","m","b","e","r">>, <<"h","o","w"," ","m","a","n","y">>}, query_lower) THEN "transaction_count"
       ELSE IF AnyIn({<<"a","v","e","r","a","g","e">>}, query_lower) THEN "average_transaction"
       ELSE IF AnyIn({<<"r","e","c","e","n","t">>, <<"l","a","t","e","s","t">>, <<"l","a","s","t">>}, query_lower) THEN "recent_transactions"
       ELSE "recent_transactions"

_classify_query_intent(question) ==
    LET query_lower == Lower(question)
    IN IF AnyIn({<<"t","o","t","a","l">>, <<"s","u","m">>, <<"s","p","e","n","d">>, <<"s","p","e","n","t">>}, query_lower)
       THEN IF AnyIn({<<"i","n","c","o","m","e">>, <<"r","e","v","e","n","u","e">>, <<"e","a","r","n","e","d">>}, query_lower)
            THEN "total_income" ELSE "total_spend"
       ELSE IF AnyIn({<<"m","o","n","t","h","l","y">>, <<"m","o","n","t","h">>, <<"t","r","e","n","d">>}, query_lower)
       THEN IF AnyIn({<<"i","n","c","o","m","e">>}, query_lower)
            THEN "income_by_month" ELSE "spend_by_month"
       ELSE IF AnyIn({<<"v","e","n","d","o","r">>, <<"m","e","r","c","h","a","n","t">>, <<"c","o","m","p","a","n","y">>}, query_lower) THEN "top_vendors"
       ELSE IF AnyIn({<<"c","a","t","e","g","o","r","y">>}, query_lower) THEN "spend_by_category"
       ELSE IF AnyIn({<<"c","o","u","n","t">>, <<"n","u","m","b","e","r">>, <<"h","o","w"," ","m","a","n","y">>}, query_lower) THEN "transaction_count"
       ELSE IF AnyIn({<<"a","v","e","r","a","g","e">>}, query_lower) THEN "average_transaction"
       ELSE IF AnyIn({<<"r","e","c","e","n","t">>, <<"l","a","t","e","s","t">>, <<"l","a","s","t">>}, query_lower) THEN "recent_transactions"
       ELSE IF AnyIn({<<"a","n","o","m","a","l">>}, query_lower) THEN "anomalies_count"
       ELSE "recent_transactions"

(***************************************************************************)
(* The Template Library: QUERY_TEMPLATES, _generate_date_filter and        *)
(* _select_query_template.  A template is given by the parse of its text   *)
(* after str.format has put the date filter and the limit in.              *)
(***************************************************************************)
\* an optional value: <<>> is Python's None (or an absent key), <<x>> is x
Some(x) == <<x>>

\* str(n) for a natural number
Digits == <<"0","1","2","3","4","5","6","7","8","9">>
RECURSIVE IntToStr(_)
IntToStr(n) ==
    IF n < 10 THEN <<Digits[n + 1]>> ELSE IntToStr(n \div 10) \o <<Digits[(n % 10) + 1]>>

\* zero-padded to two digits, as %m and %d
TwoDigits(n) == IF n < 10 THEN <<"0">> \o IntToStr(n) ELSE IntToStr(n)

\* mutant: month and day are written without zero padding
strftime_unpadded(date) ==
    IntToStr(date.year) \o <<"-">> \o IntToStr(date.month) \o <<"-">> \o IntToStr(date.day)

\* date.strftime('%Y-%m-%d') for a four-digit year
strftime(date) ==
    IntToStr(date.year) \o <<"-">> \o TwoDigits(date.month) \o <<"-">> \o TwoDigits(date.day)

\* mutant: the filter compares created_at instead of transaction_date
date_filter_on_created_at(date_from, date_to) ==
    LET lower == IF date_from # None
                 THEN <<Op(<<"G","T","E">>, <<Col(None, <<"c","r","e","a","t","e","d","_","a","t">>),
                                      Lit(strftime(date_from[1]))>>)>>
                 ELSE <<>>
        upper == IF date_to # None
                 THEN <<Op(<<"L","T","E">>, <<Col(None, <<"c","r","e","a","t","e","d","_","a","t">>),
                                      Lit(strftime(date_to[1]))>>)>>
                 ELSE <<>>
        filters == lower \o upper
    IN IF filters # <<>> THEN filters ELSE <<Op(<<"E","Q">>, <<Lit(<<"1">>), Lit(<<"1">>)>>)>>

\* the conjuncts of the date filter: the list `filters`, or 1=1 when it is empty
_generate_date_filter(date_from, date_to) ==
    LET lower == IF date_from # None
                 THEN <<Op(<<"G","T","E">>, <<Col(None, <<"t","r","a","n","s","a","c","t","i","o","n","_","d","a","t","e">>),
                                      Lit(strftime(date_from[1]))>>)>>
                 ELSE <<>>
        upper == IF date_to # None
                 THEN <<Op(<<"L","T","E">>, <<Col(None, <<"t","r","a","n","s","a","c","t","i","o","n","_","d","a","t","e">>),
                                      Lit(strftime(date_to[1]))>>)>>
                 ELSE <<>>
        filters == lower \o upper
    IN IF filters # <<>> THEN filters ELSE <<Op(<<"E","Q">>, <<Lit(<<"1">>), Lit(<<"1">>)>>)>>

\* a AND b AND c parses to And(And(a, b), c)
RECURSIVE AndAll(_)
AndAll(conjuncts) ==
    IF Len(conjuncts) = 1 THEN conjuncts[1]
    ELSE Op(<<"A","n","d">>, <<AndAll(SubSeq(conjuncts, 1, Len(conjuncts) - 1)),
                      conjuncts[Len(conjuncts)]>>)

Where(conjuncts) == Op(<<"W","h","e","r","e">>, <<AndAll(conjuncts)>>)
From(table) == Op(<<"F","r","o","m">>, <<table>>)
Sum(e) == Fn(<<"S","u","m">>, <<e>>)
OnEq(a, b) == Op(<<"E","Q">>, <<a, b>>)
Limit(n) == Op(<<"L","i","m","i","t">>, <<Lit(IntToStr(n))>>)

\* the limit a template is rendered with when the parameters carry none
DefaultLimit == 100

TemplateIntents == {
    "total_spend", "total_income", "spend_by_month", "income_by_month", "top_vendors",
    "spend_by_category", "transaction_count", "average_transaction",
    "recent_transactions", "anomalies_count", "unresolved_anomalies"}

\* QUERY_TEMPLATES[query_type].format(date_filter=..., limit=...), parsed
QUERY_TEMPLATES(query_type, date_filter, limit) ==
    CASE query_type = "total_spend" ->
           Sel(<<As(Sum(Col(None, <<"a","m","o","u","n","t">>)), <<"t","o","t","a","l">>)>>,
               <<From(Tbl(None, <<"t","r","a","n","s","a","c","t","i","o","n","s">>, None)),
                 Where(<<Op(<<"L","T">>, <<Col(None, <<"a","m","o","u","n","t">>), Lit(<<"0">>)>>)>> \o date_filter)>>)
      [] query_type = "total_income" ->
           Sel(<<As(Sum(Col(None, <<"a","m","o","u","n","t">>)), <<"t","o","t","a","l">>)>>,
               <<From(Tbl(None, <<"t","r","a","n","s","a","c","t","i","o","n","s">>, None)),
                 Where(<<Op(<<"G","T">>, <<Col(None, <<"a","m","o","u","n","t">>), Lit(<<"0">>)>>)>> \o date_filter)>>)
      [] query_type = "spend_by_month" ->
           Sel(<<As(Fn(<<"D","a","t","e","T","r","u","n","c">>, <<Lit(<<"m","o","n","t","h">>), Col(None, <<"t","r","a","n","s","a","c","t","i","o","n","_","d","a","t","e">>)>>),
                    <<"m","o","n","t","h">>),
                 As(Sum(Col(None, <<"a","m","o","u","n","t">>)), <<"t","o","t","a","l">>)>>,
               <<From(Tbl(None, <<"t","r","a","n","s","a","c","t","i","o","n","s">>, None)),
                 Where(<<Op(<<"L","T">>, <<Col(None, <<"a","m","o","u","n","t">>), Lit(<<"0">>)>>)>> \o date_filter),
                 Op(<<"G","r","o","u","p">>, <<Col(None, <<"m","o","n","t","h">>)>>),
                 Op(<<"O","r","d","e","r">>, <<Ordered(Col(None, <<"m","o","n","t","h">>), None)>>)>>)
      [] query_type = "income_by_month" ->
           Sel(<<As(Fn(<<"D","a","t","e","T","r","u","n","c">>, <<Lit(<<"m","o","n","t","h">>), Col(None, <<"t","r","a","n","s","a","c","t","i","o","n","_","d","a","t","e">>)>>),
                    <<"m","o","n","t","h">>),
                 As(Sum(Col(None, <<"a","m","o","u","n","t">>)), <<"t","o","t","a","l">>)>>,
               <<From(Tbl(None, <<"t","r","a","n","s","a","c","t","i","o","n","s">>, None)),
                 Where(<<Op(<<"G","T">>, <<Col(None, <<"a","m","o","u","n","t">>), Lit(<<"0">>)>>)>> \o date_filter),
                 Op(<<"G","r","o","u","p">>, <<Col(None, <<"m","o","n","t","h">>)>>),
                 Op(<<"O","r","d","e","r">>, <<Ordered(Col(None, <<"m","o","n","t","h">>), None)>>)>>)
      [] query_type = "top_vendors" ->
           Sel(<<Col(<<"v">>, <<"n","a","m","e">>), As(Sum(Col(<<"t">>, <<"a","m","o","u","n","t">>)), <<"t","o","t","a","l">>)>>,
               <<From(Tbl(None, <<"t","r","a","n","s","a","c","t","i","o","n","s">>, <<"t">>)),
                 Join(None, Tbl(None, <<"v","e","n","d","o","r","s">>, <<"v">>),
                      OnEq(Col(<<"t">>, <<"v","e","n","d","o","r","_","i","d">>), Col(<<"v">>, <<"i","d">>))),
                 Where(<<Op(<<"L","T">>, <<Col(<<"t">>, <<"a","m","o","u","n","t">>), Lit(<<"0">>)>>)>> \o date_filter),
                 Op(<<"G","r","o","u","p">>, <<Col(<<"v">>, <<"i","d">>), Col(<<"v">>, <<"n","a","m","e">>)>>),
                 Op(<<"O","r","d","e","r">>, <<Ordered(Col(None, <<"t","o","t","a","l">>), <<"A","S","C">>)>>),
                 Limit(limit)>>)
      [] query_type = "spend_by_category" ->
           Sel(<<Col(None, <<"c","a","t","e","g","o","r","y">>), As(Sum(Col(None, <<"a","m","o","u","n","t">>)), <<"t","o","t","a","l">>)>>,
               <<From(Tbl(None, <<"t","r","a","n","s","a","c","t","i","o","n","s">>, None)),
                 Where(<<Op(<<"L","T">>, <<Col(None, <<"a","m","o","u","n","t">>), Lit(<<"0">>)>>),
                         Op(<<"N","o","t">>, <<Op(<<"I","s">>, <<Col(None, <<"c","a","t","e","g","o","r","y">>),
                                                  Op(<<"N","u","l","l">>, <<>>)>>)>>)>>
                       \o date_filter),
                 Op(<<"G","r","o","u","p">>, <<Col(None, <<"c","a","t","e","g","o","r","y">>)>>),
                 Op(<<"O","r","d","e","r">>, <<Ordered(Col(None, <<"t","o","t","a","l">>), <<"A","S","C">>)>>)>>)
      [] query_type = "transaction_count" ->
           Sel(<<As(Fn(<<"C","o","u","n","t">>, <<Star>>), <<"c","o","u","n","t">>)>>,
               <<From(Tbl(None, <<"t","r","a","n","s","a","c","t","i","o","n","s">>, None)), Where(date_filter)>>)
      [] query_type = "average_transaction" ->
           Sel(<<As(Fn(<<"A","v","g">>, <<Col(None, <<"a","m","o","u","n","t">>)>>), <<"a","v","e","r","a","g","e">>)>>,
               <<From(Tbl(None, <<"t","r","a","n","s","a","c","t","i","o","n","s">>, None)), Where(date_filter)>>)
      [] query_type = "recent_transactions" ->
           Sel(<<Col(<<"t">>, <<"i","d">>), Col(<<"t">>, <<"t","r","a","n","s","a","c","t","i","o","n","_","d","a","t","e">>), Col(<<"t">>, <<"v","e","n","d","o","r","_","i","d">>),
                 Col(<<"t">>, <<"a","m","o","u","n","t">>), Col(<<"t">>, <<"c","a","t","e","g","o","r","y">>),
                 Col(<<"t">>, <<"n","o","r","m","a","l","i","z","e","d","_","d","e","s","c","r","i","p","t","i","o","n">>), Col(<<"v">>, <<"n","a","m","e">>)>>,
               <<From(Tbl(None, <<"t","r","a","n","s","a","c","t","i","o","n","s">>, <<"t">>)),
                 Join(<<"L","E","F","T">>, Tbl(None, <<"v","e","n","d","o","r","s">>, <<"v">>),
                      OnEq(Col(<<"t">>, <<"v","e","n","d","o","r","_","i","d">>), Col(<<"v">>, <<"i","d">>))),
                 Where(date_filter),
                 Op(<<"O","r","d","e","r">>, <<Ordered(Col(<<"t">>, <<"t","r","a","n","s","a","c","t","i","o","n","_","d","a","t","e">>), <<"D","E","S","C">>)>>),
                 Limit(limit)>>)
      [] query_type = "anomalies_count" ->
           Sel(<<As(Fn(<<"C","o","u","n","t">>, <<Star>>), <<"c","o","u","n","t">>)>>,
               <<From(Tbl(None, <<"a","n","o","m","a","l","i","e","s">>, None)), Where(date_filter)>>)
      [] query_type = "unresolved_anomalies" ->
           Sel(<<Col(<<"a">>, <<"i","d">>), Col(<<"a">>, <<"t","r","a","n","s","a","c","t","i","o","n","_","i","d">>), Col(<<"a">>, <<"a","n","o","m","a","l","y","_","t","y","p","e">>),
                 Col(<<"a">>, <<"s","e","v","e","r","i","t","y">>), Col(<<"a">>, <<"d","e","s","c","r","i","p","t","i","o","n">>), Col(<<"t">>, <<"a","m","o","u","n","t">>),
                 Col(<<"v">>, <<"n","a","m","e">>)>>,
               <<From(Tbl(None, <<"a","n","o","m","a","l","i","e","s">>, <<"a">>)),
                 Join(None, Tbl(None, <<"t","r","a","n","s","a","c","t","i","o","n","s">>, <<"t">>),
                      OnEq(Col(<<"a">>, <<"t","r","a","n","s","a","c","t","i","o","n","_","i","d">>), Col(<<"t">>, <<"i","d">>))),
                 Join(<<"L","E","F","T">>, Tbl(None, <<"v","e","n","d","o","r","s">>, <<"v">>),
                      OnEq(Col(<<"t">>, <<"v","e","n","d","o","r","_","i","d">>), Col(<<"v">>, <<"i","d">>))),
                 Where(<<Op(<<"I","s">>, <<Col(<<"a">>, <<"r","e","s","o","l","v","e","d","_","a","t">>), Op(<<"N","u","l","l">>, <<>>)>>)>>
                       \o date_filter),
                 Op(<<"O","r","d","e","r">>, <<Ordered(Col(<<"a">>, <<"d","e","t","e","c","t","e","d","_","a","t">>), <<"D","E","S","C">>)>>)>>)

\* _select_query_template: None (<<>>) when the intent has no template, else the
\* rendered SQL
_select_query_template(query_type, params) ==
    IF query_type \notin TemplateIntents THEN None
    ELSE Some(Parsed(<<QUERY_TEMPLATES(
                 query_type,
                 _generate_date_filter(params.date_from, params.date_to),
                 IF params.limit # None THEN params.limit[1] ELSE DefaultLimit)>>))

(***************************************************************************)
(* The request: NLQService.execute_query and what it calls.                *)
(*                                                                         *)
(* pc is the position of the request:                                      *)
(*   "idle"         no request yet                                         *)
(*   "generate"     in generate_sql, before _generate_sql_with_llm         *)
(*   "validate"     in generate_sql, the provider has answered             *)
(*   "execute"      generate_sql has returned, before self.db.execute      *)
(*   "log_success"  rows fetched, before the success record is written     *)
(*   "except"       in the except clause of execute_query                  *)
(*   "returned"     execute_query has returned ret                         *)
(*   "raised"       an exception has left execute_query                    *)
(***************************************************************************)
\* the questions and parameters of the requests
Questions == {<<"T","o","t","a","l"," ","s","p","e","n","d"," ","l","a","s","t"," ","m","o","n","t","h">>, <<"s","h","o","w"," ","a","n","o","m","a","l","i","e","s">>}
Dates == {[year |-> 2024, month |-> 3, day |-> 1]}
OptionalDates == {None} \cup {Some(d) : d \in Dates}
ParameterSets == [date_from : OptionalDates, date_to : {None}, limit : {Some(DefaultLimit)}]

\* the SQL text of the provider's answers
DropTable == Op(<<"D","r","o","p">>, <<Tbl(None, <<"t","r","a","n","s","a","c","t","i","o","n","s">>, None)>>)
ProviderAnswers == {
    Parsed(<<ScenarioD>>),
    Parsed(<<ScenarioE>>),
    Parsed(<<UsersQuery>>),
    Parsed(<<DropTable>>),
    Parsed(<<Sel(<<Anon(<<"p","g","_","s","l","e","e","p">>, <<Lit(<<"1","0">>)>>)>>, <<>>)>>),
    Parsed(<<ScenarioD, DropTable>>),
    Parsed(<<NoStatement>>),
    Unparseable }

\* the provider's completion: the SQL text, bare or wrapped in a code fence
Fences == {"none", "sql", "plain"}
ProviderResponses == [fence : Fences, body : ProviderAnswers]

\* the re.sub calls of _generate_sql_with_llm: the opening line of a code fence, with or
\* without the tag sql, and its closing line are removed
strip_code_fence(response) == response.body

\* how the provider call can fail
ProviderErrors == {"APIConnectionError", "APITimeoutError"}

\* the rows a query can fetch
RowSets == {<<>>, <<"row">>}

\* how self.db.execute can fail: in_server errors are raised by the database inside the
\* session's transaction, which PostgreSQL then keeps in the failed state until a
\* rollback; the others are raised before the statement reaches the database
ExecutionErrors == {
    [type |-> "ProgrammingError", in_server |-> TRUE],
    [type |-> "StatementError", in_server |-> FALSE] }

\* the empty string
EmptyText == Parsed(<<NoStatement>>)

NoException == [kind |-> "none", type |-> "none", msg |-> <<>>]
Exception(kind, type, msg) == [kind |-> kind, type |-> type, msg |-> msg]

\* json.dumps(parameters or {}) succeeds: a datetime is not JSON serializable
json_dumps_ok(params) == params.date_from = None /\ params.date_to = None

\* getattr(e, 'sql', ''): no exception raised here carries an attribute sql
getattr_sql(e) == EmptyText

ServiceVars == <<llm_provider, openai_client, anthropic_client>>

SyncVars == <<connection, sync_log, transactions_rows, vendors_rows, sync,
              disconnect_response>>

\* no QuickBooks connection is stored and nothing is synchronised
NoQuickBooks ==
    /\ connection = <<>>
    /\ sync_log = <<>>
    /\ transactions_rows = <<>>
    /\ vendors_rows = {}
    /\ sync = <<>>
    /\ disconnect_response = <<>>

\* what __init__ finds in the environment: LLM_PROVIDER and which API keys are set
Environments == {
    <<"openai", TRUE, FALSE>>,
    <<"anthropic", FALSE, TRUE>>,
    <<"openai", FALSE, FALSE>> }

Init ==
    /\ pc = "idle"
    /\ nreq = 0
    /\ \E env \in Environments :
          /\ llm_provider = env[1]
          /\ openai_client = env[2]
          /\ anthropic_client = env[3]
    /\ query = <<>>
    /\ parameters = [date_from |-> None, date_to |-> None, limit |-> None]
    /\ sql = EmptyText
    /\ intent = ""
    /\ results = <<>>
    /\ exc = NoException
    /\ raised = NoException
    /\ ret = <<>>
    /\ log = <<>>
    /\ txn_aborted = FALSE
    /\ llm_calls = 0
    /\ llm_outcome = "none"
    /\ validated = <<>>
    /\ executed = <<>>
    /\ NoQuickBooks

\* a caller calls execute_query(query, parameters) on a fresh session
execute_query_call ==
    /\ pc \in {"idle", "returned", "raised"}
    /\ nreq < MaxRequests
    /\ nreq' = nreq + 1
    /\ \E q \in Questions, p \in ParameterSets : query' = q /\ parameters' = p
    /\ pc' = "generate"
    /\ sql' = EmptyText
    /\ intent' = ""
    /\ results' = <<>>
    /\ exc' = NoException
    /\ raised' = NoException
    /\ ret' = <<>>
    /\ txn_aborted' = FALSE
    /\ llm_calls' = 0
    /\ llm_outcome' = "none"
    /\ validated' = <<>>
    /\ executed' = <<>>
    /\ UNCHANGED <<ServiceVars, SyncVars, log>>

\* the client _generate_sql_with_llm picks
has_llm_client ==
    \/ llm_provider = "anthropic" /\ anthropic_client
    \/ openai_client

\* _generate_sql_with_llm without a client: ValueError, wrapped by the except clause
llm_no_client ==
    /\ pc = "generate"
    /\ ~ has_llm_client
    /\ llm_outcome' = "no_client"
    /\ exc' = Exception("generation", "ValueError",
                        <<"Failed to generate SQL with LLM", "No LLM client available">>)
    /\ pc' = "except"
    /\ UNCHANGED <<ServiceVars, SyncVars, nreq, query, parameters, sql, intent, results, raised, ret,
                   log, txn_aborted, llm_calls, validated, executed>>

\* mutant: a failing provider call is swallowed and the question's template, if it has
\* one, becomes the candidate
llm_call_fails_swallowed ==
    /\ pc = "generate"
    /\ has_llm_client
    /\ llm_calls' = llm_calls + 1
    /\ llm_outcome' = "failed"
    /\ LET template == _select_query_template(_classify_query_intent(query), parameters)
       IN sql' = IF template # None THEN template[1] ELSE EmptyText
    /\ pc' = "validate"
    /\ UNCHANGED <<ServiceVars, SyncVars, nreq, query, parameters, intent, results, exc, raised, ret,
                   log, txn_aborted, validated, executed>>

\* the provider call raises (network, authentication, timeout, unusable response)
llm_call_fails ==
    /\ pc = "generate"
    /\ has_llm_client
    /\ llm_calls' = llm_calls + 1
    /\ llm_outcome' = "failed"
    /\ \E cause \in ProviderErrors :
          exc' = Exception("generation", "ValueError",
                           <<"Failed to generate SQL with LLM", cause>>)
    /\ pc' = "except"
    /\ UNCHANGED <<ServiceVars, SyncVars, nreq, query, parameters, sql, intent, results, raised, ret,
                   log, txn_aborted, validated, executed>>

\* the provider answers; the answer, its code fence stripped, is the candidate
llm_call_answers ==
    /\ pc = "generate"
    /\ has_llm_client
    /\ llm_calls' = llm_calls + 1
    /\ llm_outcome' = "answered"
    /\ \E response \in ProviderResponses : sql' = strip_code_fence(response)
    /\ pc' = "validate"
    /\ UNCHANGED <<ServiceVars, SyncVars, nreq, query, parameters, intent, results, exc, raised, ret,
                   log, txn_aborted, validated, executed>>

\* mutant: the Template Library is tried first, and the provider is called only when the
\* intent has no template or its template fails validation
generate_sql_template_first ==
    LET template == _select_query_template(_classify_query_intent(query), parameters)
    IN IF template # None /\ _validate_sql_safety(template[1])[1]
       THEN /\ pc = "generate"
            /\ sql' = template[1]
            /\ pc' = "validate"
            /\ UNCHANGED <<ServiceVars, SyncVars, nreq, query, parameters, intent, results, exc,
                           raised, ret, log, txn_aborted, llm_calls, llm_outcome, validated, executed>>
       ELSE llm_no_client \/ llm_call_fails \/ llm_call_answers

\* generate_sql, first half: the candidate comes from _generate_sql_with_llm
generate_sql_candidate == llm_no_client \/ llm_call_fails \/ llm_call_answers

\* mutant: the validator's verdict is computed and then ignored
generate_sql_unvalidated ==
    /\ pc = "validate"
    /\ validated' = Append(validated, <<sql, _validate_sql_safety(sql)[1]>>)
    /\ intent' = "llm_generated"
    /\ pc' = "execute"
    /\ UNCHANGED <<ServiceVars, SyncVars, nreq, query, parameters, sql, results, exc, raised, ret,
                   log, txn_aborted, llm_calls, llm_outcome, executed>>

\* mutant: after a first rejection the provider is prompted again
generate_sql_validate_reprompts ==
    /\ pc = "validate"
    /\ LET verdict == _validate_sql_safety(sql)
       IN /\ validated' = Append(validated, <<sql, verdict[1]>>)
          /\ IF ~ verdict[1] /\ llm_calls < 2
             THEN /\ pc' = "generate"
                  /\ UNCHANGED <<intent, exc>>
             ELSE IF ~ verdict[1]
             THEN /\ exc' = Exception("rejection", "ValueError",
                                      <<"Generated SQL failed safety check", verdict[2]>>)
                  /\ pc' = "except"
                  /\ UNCHANGED intent
             ELSE /\ intent' = "llm_generated"
                  /\ pc' = "execute"
                  /\ UNCHANGED exc
    /\ UNCHANGED <<ServiceVars, SyncVars, nreq, query, parameters, sql, results, raised, ret, log,
                   txn_aborted, llm_calls, llm_outcome, executed>>

\* generate_sql, second half: the candidate is validated and returned, or rejected
generate_sql_validate ==
    /\ pc = "validate"
    /\ LET verdict == _validate_sql_safety(sql)
       IN /\ validated' = Append(validated, <<sql, verdict[1]>>)
          /\ IF ~ verdict[1]
             THEN /\ exc' = Exception("rejection", "ValueError",
                                      <<"Generated SQL failed safety check", verdict[2]>>)
                  /\ pc' = "except"
                  /\ UNCHANGED intent
             ELSE /\ intent' = "llm_generated"
                  /\ pc' = "execute"
                  /\ UNCHANGED exc
    /\ UNCHANGED <<ServiceVars, SyncVars, nreq, query, parameters, sql, results, raised, ret, log,
                   txn_aborted, llm_calls, llm_outcome, executed>>

\* mutant: an error of self.db.execute is noted but the request carries on as if rows
\* had been fetched
db_execute_errors_ignored ==
    /\ pc = "execute"
    /\ executed' = Append(executed, sql)
    /\ \/ \E rows \in RowSets :
             /\ results' = rows
             /\ UNCHANGED <<exc, txn_aborted>>
       \/ \E e \in ExecutionErrors :
             /\ exc' = Exception("execution", e.type, <<"database error", e.type>>)
             /\ txn_aborted' = e.in_server
             /\ UNCHANGED results
    /\ pc' = "log_success"
    /\ UNCHANGED <<ServiceVars, SyncVars, nreq, query, parameters, sql, intent, raised, ret, log,
                   llm_calls, llm_outcome, validated>>

\* self.db.execute(text(sql)) and result.fetchall()
db_execute ==
    /\ pc = "execute"
    /\ executed' = Append(executed, sql)
    /\ \/ \E rows \in RowSets :
             /\ results' = rows
             /\ pc' = "log_success"
             /\ UNCHANGED <<exc, txn_aborted>>
       \/ \E e \in ExecutionErrors :
             /\ exc' = Exception("execution", e.type, <<"database error", e.type>>)
             /\ txn_aborted' = e.in_server
             /\ pc' = "except"
             /\ UNCHANGED results
    /\ UNCHANGED <<ServiceVars, SyncVars, nreq, query, parameters, sql, intent, raised, ret, log,
                   llm_calls, llm_outcome, validated>>

\* the rest of the try block: the natural-language response (which catches its own
\* errors), the success record, the returned value
log_success ==
    /\ pc = "log_success"
    /\ IF ~ json_dumps_ok(parameters)
       THEN /\ exc' = Exception("logging", "TypeError",
                                <<"Object of type datetime is not JSON serializable">>)
            /\ pc' = "except"
            /\ UNCHANGED <<log, ret>>
       ELSE /\ log' = Append(log, [user_query |-> query,
                                   generated_sql |-> sql,
                                   parameters |-> parameters,
                                   execution_time_ms |-> "elapsed",
                                   result_count |-> Some(Len(results)),
                                   error_message |-> None,
                                   executed_successfully |-> TRUE])
            /\ ret' = [success |-> TRUE,
                       sql |-> sql,
                       intent |-> intent,
                       results |-> results,
                       execution_time_ms |-> "elapsed",
                       result_count |-> Len(results),
                       natural_language_response |-> "response",
                       summary |-> "response"]
            /\ pc' = "returned"
            /\ UNCHANGED exc
    /\ UNCHANGED <<ServiceVars, SyncVars, nreq, query, parameters, sql, intent, results, raised,
                   txn_aborted, llm_calls, llm_outcome, validated, executed>>

\* the except clause: the failure record, the returned value
except_clause ==
    /\ pc = "except"
    /\ IF ~ json_dumps_ok(parameters)
       THEN /\ raised' = Exception("logging", "TypeError",
                                   <<"Object of type datetime is not JSON serializable">>)
            /\ pc' = "raised"
            /\ UNCHANGED <<log, ret>>
       ELSE IF txn_aborted
       THEN /\ raised' = Exception("logging", "InternalError",
                                   <<"current transaction is aborted">>)
            /\ pc' = "raised"
            /\ UNCHANGED <<log, ret>>
       ELSE /\ log' = Append(log, [user_query |-> query,
                                   generated_sql |-> getattr_sql(exc),
                                   parameters |-> parameters,
                                   execution_time_ms |-> "elapsed",
                                   result_count |-> None,
                                   error_message |-> Some(exc.msg),
                                   executed_successfully |-> FALSE])
            /\ ret' = [success |-> FALSE,
                       error |-> exc.msg,
                       execution_time_ms |-> "elapsed",
                       natural_language_response |-> "response"]
            /\ pc' = "returned"
            /\ UNCHANGED raised
    /\ UNCHANGED <<ServiceVars, SyncVars, nreq, query, parameters, sql, intent, results, exc,
                   txn_aborted, llm_calls, llm_outcome, validated, executed>>

Next ==
    \/ execute_query_call
    \/ generate_sql_candidate
    \/ generate_sql_validate
    \/ db_execute
    \/ log_success
    \/ except_clause

Spec == Init /\ [][Next]_vars

(***************************************************************************)
(* The validator on its own: every input of the validator, handed to the   *)
(* validating half of generate_sql.                                        *)
(***************************************************************************)
InitValidate ==
    /\ pc = "validate"
    /\ nreq = 1
    /\ llm_provider = "openai"
    /\ openai_client = TRUE
    /\ anthropic_client = FALSE
    /\ query = <<"s","h","o","w"," ","a","n","o","m","a","l","i","e","s">>
    /\ parameters = [date_from |-> None, date_to |-> None, limit |-> Some(DefaultLimit)]
    /\ IsValidatorInput(sql)
    /\ intent = ""
    /\ results = <<>>
    /\ exc = NoException
    /\ raised = NoException
    /\ ret = <<>>
    /\ log = <<>>
    /\ txn_aborted = FALSE
    /\ llm_calls = 1
    /\ llm_outcome = "answered"
    /\ validated = <<>>
    /\ executed = <<>>
    /\ NoQuickBooks

SpecValidate == InitValidate /\ [][generate_sql_validate]_vars

(***************************************************************************)
(* The classifier on its own: _classify_query_intent called on questions   *)
(* of up to MaxWords words.                                                *)
(***************************************************************************)
\* the words questions are made of: keywords of every rule in mixed case, words that
\* contain a keyword (summary, accounts) and a word that contains none
WordPool == <<
    <<"T","o","t","a","l">>, <<"s","u","m","m","a","r","y">>, <<"i","n","c","o","m","e">>, <<"M","O","N","T","H">>, <<"m","e","r","c","h","a","n","t">>, <<"c","a","t","e","g","o","r","y">>,
    <<"a","c","c","o","u","n","t","s">>, <<"a","v","e","r","a","g","e">>, <<"l","a","t","e","s","t">>, <<"A","n","o","m","a","l","i","e","s">>, <<"p","l","e","a","s","e">>, <<"R","E","V","E","N","U","E">>>>

\* the questions of up to n words, the empty question included
RECURSIVE QuestionsOf(_)
QuestionsOf(n) ==
    IF n = 0 THEN {<<>>}
    ELSE {<<>>} \cup {IF rest = <<>> THEN WordPool[i] ELSE WordPool[i] \o <<" ">> \o rest :
                         i \in 1..Len(WordPool), rest \in QuestionsOf(n - 1)}

InitClassify ==
    /\ pc = "classify"
    /\ nreq = 1
    /\ llm_provider = "openai"
    /\ openai_client = TRUE
    /\ anthropic_client = FALSE
    /\ query \in QuestionsOf(MaxWords)
    /\ parameters = [date_from |-> None, date_to |-> None, limit |-> Some(DefaultLimit)]
    /\ sql = EmptyText
    /\ intent = ""
    /\ results = <<>>
    /\ exc = NoException
    /\ raised = NoException
    /\ ret = <<>>
    /\ log = <<>>
    /\ txn_aborted = FALSE
    /\ llm_calls = 0
    /\ llm_outcome = "none"
    /\ validated = <<>>
    /\ executed = <<>>
    /\ NoQuickBooks

\* a call of _classify_query_intent(query)
classify_call ==
    /\ pc = "classify"
    /\ intent' = _classify_query_intent(query)
    /\ pc' = "classified"
    /\ UNCHANGED <<ServiceVars, SyncVars, nreq, query, parameters, sql, results, exc, raised, ret,
                   log, txn_aborted, llm_calls, llm_outcome, validated, executed>>

SpecClassify == InitClassify /\ [][classify_call]_vars

(***************************************************************************)
(* The Template Library on its own: _select_query_template called on every *)
(* query type and parameter set, and the validator called on what it       *)
(* returns.                                                                *)
(*   "render"       before _select_query_template(intent, parameters)      *)
(*   "no_template"  it returned None                                       *)
(*   "rendered"     it returned the SQL now in sql                         *)
(*   "checked"      _validate_sql_safety(sql) has returned into validated  *)
(***************************************************************************)
\* the query types: the keys of QUERY_TEMPLATES and one that is no key
QueryTypes == TemplateIntents \cup {"unknown"}
TemplateDates == {[year |-> 2024, month |-> 3, day |-> 1],
                  [year |-> 2023, month |-> 12, day |-> 31]}
TemplateLimits == {None, Some(1), Some(DefaultLimit), Some(1000)}
TemplateParameterSets ==
    [date_from : {None} \cup {Some(d) : d \in TemplateDates},
     date_to : {None} \cup {Some(d) : d \in TemplateDates},
     limit : TemplateLimits]

InitTemplate ==
    /\ pc = "render"
    /\ nreq = 1
    /\ llm_provider = "openai"
    /\ openai_client = TRUE
    /\ anthropic_client = FALSE
    /\ query = <<>>
    /\ parameters \in TemplateParameterSets
    /\ sql = EmptyText
    /\ intent \in QueryTypes
    /\ results = <<>>
    /\ exc = NoException
    /\ raised = NoException
    /\ ret = <<>>
    /\ log = <<>>
    /\ txn_aborted = FALSE
    /\ llm_calls = 0
    /\ llm_outcome = "none"
    /\ validated = <<>>
    /\ executed = <<>>
    /\ NoQuickBooks

\* a call of _select_query_template(intent, parameters)
select_query_template_call ==
    /\ pc = "render"
    /\ LET template == _select_query_template(intent, parameters)
       IN IF template = None
          THEN pc' = "no_template" /\ UNCHANGED sql
          ELSE pc' = "rendered" /\ sql' = template[1]
    /\ UNCHANGED <<ServiceVars, SyncVars, nreq, query, parameters, intent, results, exc, raised, ret,
                   log, txn_aborted, llm_calls, llm_outcome, validated, executed>>

\* a call of _validate_sql_safety on the rendered template
template_validate ==
    /\ pc = "rendered"
    /\ validated' = Append(validated, <<sql, _validate_sql_safety(sql)[1]>>)
    /\ pc' = "checked"
    /\ UNCHANGED <<ServiceVars, SyncVars, nreq, query, parameters, sql, intent, results, exc, raised,
                   ret, log, txn_aborted, llm_calls, llm_outcome, executed>>

NextTemplate == select_query_template_call \/ template_validate
SpecTemplate == InitTemplate /\ [][NextTemplate]_vars

(***************************************************************************)
(* QuickBooks synchronisation.  The database holds the connection row, one *)
(* sync log row per run, the transactions and the vendors; every           *)
(* background task of _run_sync works through a session of its own made by *)
(* SessionLocal (autoflush = False): a query sees the committed rows and   *)
(* the rows this session has flushed, never the objects it has only added. *)
(***************************************************************************)
SyncTasks == 1..MaxSyncs

\* the Ids, SyncTokens and EntityRef names the QuickBooks API answers with
QbIds == {"101", "102"}
SyncTokens == {"0", "1"}
VendorNames == {"Acme"}
Items == [Id : QbIds, SyncToken : SyncTokens,
          EntityRef : {None} \cup {Some(name) : name \in VendorNames}]

Row(qb_txn_id, sync_version) ==
    [quickbooks_id |-> qb_txn_id, quickbooks_sync_version |-> sync_version]

\* a session right after SessionLocal(), commit() or rollback()
FreshSession ==
    [new |-> <<>>,          \* Transaction objects added, not yet flushed
     flushed |-> <<>>,      \* rows inserted inside the open database transaction
     loaded |-> <<>>,       \* identity map: <<row number, version in memory, modified>>
     vendors |-> {},        \* vendors inserted inside the open database transaction
     inactive |-> FALSE]    \* a flush failed: the session wants rollback()

NoStats == [fetched |-> 0, created |-> 0, updated |-> 0, skipped |-> 0]

IdleTask == [pc |-> "idle", remaining |-> 0, stats |-> NoStats,
             session |-> FreshSession, exc |-> NoException]

NoLog == [status |-> "none", error_message |-> None, transactions_fetched |-> 0,
          transactions_created |-> 0, transactions_updated |-> 0,
          transactions_skipped |-> 0]

RequestVars == <<pc, nreq, llm_provider, openai_client, anthropic_client, query,
                 parameters, sql, intent, results, exc, raised, ret, log, txn_aborted,
                 llm_calls, llm_outcome, validated, executed>>

\* the stores the sync starts from: with and without an earlier import of "101"
InitialTransactions == { <<>>, <<Row("101", "0")>> }

InitSync ==
    /\ pc = "idle"
    /\ nreq = 0
    /\ llm_provider = "openai"
    /\ openai_client = TRUE
    /\ anthropic_client = FALSE
    /\ query = <<>>
    /\ parameters = [date_from |-> None, date_to |-> None, limit |-> None]
    /\ sql = EmptyText
    /\ intent = ""
    /\ results = <<>>
    /\ exc = NoException
    /\ raised = NoException
    /\ ret = <<>>
    /\ log = <<>>
    /\ txn_aborted = FALSE
    /\ llm_calls = 0
    /\ llm_outcome = "none"
    /\ validated = <<>>
    /\ executed = <<>>
    /\ connection = [is_active |-> TRUE, sync_status |-> None, sync_error |-> None]
    /\ sync_log = [t \in SyncTasks |-> NoLog]
    /\ transactions_rows \in InitialTransactions
    /\ vendors_rows = {}
    /\ sync = [t \in SyncTasks |-> IdleTask]
    /\ disconnect_response = None

\* POST /connections/{id}/sync: an active connection gets a background task,
\* whatever its sync_status
trigger_sync(t) ==
    /\ sync[t].pc = "idle"
    /\ connection.is_active
    /\ sync' = [sync EXCEPT ![t].pc = "queued"]
    /\ UNCHANGED <<RequestVars, connection, sync_log, transactions_rows, vendors_rows,
                   disconnect_response>>

\* sync_connection up to get_valid_access_token: the log row "started" and
\* the status "in_progress" are committed, then the token is refreshed if it
\* expires within five minutes, and refresh_tokens may fail
sync_connection_begin(t) ==
    /\ sync[t].pc = "queued"
    /\ sync_log' = [sync_log EXCEPT ![t] = [NoLog EXCEPT !.status = "started"]]
    /\ \E refreshed \in BOOLEAN :
          IF refreshed
          THEN /\ connection' = [connection EXCEPT !.sync_status = Some("in_progress")]
               /\ sync' = [sync EXCEPT ![t].pc = "vendors"]
          ELSE /\ connection' = [connection EXCEPT
                                    !.sync_status = Some("in_progress"),
                                    !.is_active = FALSE,
                                    !.sync_error = Some("Token refresh failed")]
               /\ sync' = [sync EXCEPT
                              ![t].pc = "except",
                              ![t].exc = Exception("oauth", "Exception",
                                                   <<"Failed to refresh token">>)]
    /\ UNCHANGED <<RequestVars, transactions_rows, vendors_rows, disconnect_response>>

\* _sync_vendors: the fetched vendors that no query finds are added and
\* committed; a failure of the fetch is swallowed and leaves nothing to add
_sync_vendors(t) ==
    /\ sync[t].pc = "vendors"
    /\ \E vendors_data \in SUBSET VendorNames :
          vendors_rows' = vendors_rows \cup vendors_data
    /\ sync' = [sync EXCEPT ![t].pc = "fetch"]
    /\ UNCHANGED <<RequestVars, connection, sync_log, transactions_rows,
                   disconnect_response>>

\* _sync_transactions, the fetch: stats["fetched"] = len(transactions_data)
_fetch_quickbooks_transactions(t) ==
    /\ sync[t].pc = "fetch"
    /\ \E n \in 0..MaxBatch :
          sync' = [sync EXCEPT ![t].pc = "transactions",
                               ![t].remaining = n,
                               ![t].stats = [NoStats EXCEPT !.fetched = n]]
    /\ UNCHANGED <<RequestVars, connection, sync_log, transactions_rows, vendors_rows,
                   disconnect_response>>

\* the rows db.query(Transaction).filter(quickbooks_id == ...) can answer
\* with: committed rows and rows this session has flushed
Matches(session, qb_txn_id) ==
    { <<"row", i>> : i \in { j \in 1..Len(transactions_rows) :
                              transactions_rows[j].quickbooks_id = qb_txn_id } }
    \cup
    { <<"flushed", i>> : i \in { j \in 1..Len(session.flushed) :
                                  session.flushed[j].quickbooks_id = qb_txn_id } }

\* the identity map's entry of committed row i, if the session has loaded it
LoadedAt(session, i) == { k \in 1..Len(session.loaded) : session.loaded[k][1] = i }

\* existing_txn.quickbooks_sync_version as the session holds it in memory
VersionInMemory(session, found) ==
    IF found[1] = "flushed"
    THEN session.flushed[found[2]].quickbooks_sync_version
    ELSE IF LoadedAt(session, found[2]) # {}
    THEN session.loaded[CHOOSE k \in LoadedAt(session, found[2]) : TRUE][2]
    ELSE transactions_rows[found[2]].quickbooks_sync_version

\* the session after the loaded object took the version (modified or not)
Remember(session, found, version, modified) ==
    IF found[1] = "flushed"
    THEN [session EXCEPT !.flushed[found[2]].quickbooks_sync_version = version]
    ELSE IF LoadedAt(session, found[2]) # {}
    THEN LET k == CHOOSE j \in LoadedAt(session, found[2]) : TRUE
         IN [session EXCEPT !.loaded[k] =
                <<found[2], version, modified \/ session.loaded[k][3]>>]
    ELSE [session EXCEPT !.loaded = Append(session.loaded,
                                           <<found[2], version, modified>>)]

\* db.flush(): the added objects are inserted inside the open transaction
Flushed(session) ==
    [session EXCEPT !.flushed = session.flushed \o session.new, !.new = <<>>]

\* _process_transaction(connection, txn_data, db) on a session after the
\* vendor lookup; found is what .first() answered
ProcessResult(session, txn_data, found) ==
    IF found # None
    THEN IF VersionInMemory(session, found) # txn_data.SyncToken
         THEN [result |-> "updated",
               session |-> Remember(session, found, txn_data.SyncToken, TRUE)]
         ELSE [result |-> "skipped",
               session |-> Remember(session, found, txn_data.SyncToken, FALSE)]
    ELSE [result |-> "created",
          session |-> [session EXCEPT
                          !.new = Append(session.new,
                                         Row(txn_data.Id, txn_data.SyncToken))]]

\* one turn of the loop of _sync_transactions: _process_transaction on the
\* next fetched item, then stats[result] += 1
_process_transaction(t) ==
    /\ sync[t].pc = "transactions"
    /\ sync[t].remaining > 0
    /\ \E txn_data \in Items :
       LET session == sync[t].session
           matches == Matches(session, txn_data.Id)
           vendor_missing == /\ txn_data.EntityRef # None
                             /\ txn_data.EntityRef[1] \notin vendors_rows \cup session.vendors
       IN \E found \in (IF matches = {} THEN {None} ELSE matches),
             flush_ok \in (IF vendor_missing THEN BOOLEAN ELSE {TRUE}) :
             IF ~ flush_ok
             THEN sync' = [sync EXCEPT
                              ![t].pc = "except",
                              ![t].session.inactive = TRUE,
                              ![t].exc = Exception("database", "OperationalError",
                                                   <<"flush failed">>)]
             ELSE LET after_vendor ==
                          IF vendor_missing
                          THEN [Flushed(session) EXCEPT
                                   !.vendors = session.vendors \cup {txn_data.EntityRef[1]}]
                          ELSE session
                      done == ProcessResult(after_vendor, txn_data, found)
                  IN sync' = [sync EXCEPT
                                 ![t].session = done.session,
                                 ![t].remaining = @ - 1,
                                 ![t].stats[done.result] = @ + 1]
    /\ UNCHANGED <<RequestVars, connection, sync_log, transactions_rows, vendors_rows,
                   disconnect_response>>

\* the transactions table after the session's commit: the modified loaded
\* rows are updated, the flushed and the added rows are there
RECURSIVE Updated(_, _)
Updated(rows, loaded) ==
    IF loaded = <<>> THEN rows
    ELSE LET entry == Head(loaded)
         IN Updated(IF entry[3]
                    THEN [rows EXCEPT ![entry[1]].quickbooks_sync_version = entry[2]]
                    ELSE rows,
                    Tail(loaded))

Committed(session) ==
    Updated(transactions_rows, session.loaded) \o session.flushed \o session.new

\* _sync_transactions after the loop: db.commit(), which may fail and then
\* rolls the session back
_sync_transactions_commit(t) ==
    /\ sync[t].pc = "transactions"
    /\ sync[t].remaining = 0
    /\ \E commit_ok \in BOOLEAN :
          IF commit_ok
          THEN /\ transactions_rows' = Committed(sync[t].session)
               /\ vendors_rows' = vendors_rows \cup sync[t].session.vendors
               /\ sync' = [sync EXCEPT ![t].pc = "complete",
                                       ![t].session = FreshSession]
          ELSE /\ sync' = [sync EXCEPT
                              ![t].pc = "except",
                              ![t].session = FreshSession,
                              ![t].exc = Exception("database", "OperationalError",
                                                   <<"commit failed">>)]
               /\ UNCHANGED <<transactions_rows, vendors_rows>>
    /\ UNCHANGED <<RequestVars, connection, sync_log, disconnect_response>>

\* sync_connection after _sync_transactions returned: the log is completed
\* with the statistics, the connection is a success, and the log is returned
sync_connection_complete(t) ==
    /\ sync[t].pc = "complete"
    /\ sync_log' = [sync_log EXCEPT ![t] =
                       [status |-> "completed",
                        error_message |-> None,
                        transactions_fetched |-> sync[t].stats.fetched,
                        transactions_created |-> sync[t].stats.created,
                        transactions_updated |-> sync[t].stats.updated,
                        transactions_skipped |-> sync[t].stats.skipped]]
    /\ connection' = [connection EXCEPT !.sync_status = Some("success"),
                                        !.sync_error = None]
    /\ sync' = [sync EXCEPT ![t].pc = "returned"]
    /\ UNCHANGED <<RequestVars, transactions_rows, vendors_rows, disconnect_response>>

\* the except clause of sync_connection: the failure is written to the log
\* and to the connection and db.commit() is called without a rollback; on a
\* session whose flush failed the commit raises and nothing is written
sync_connection_except(t) ==
    /\ sync[t].pc = "except"
    /\ IF sync[t].session.inactive
       THEN /\ sync' = [sync EXCEPT
                           ![t].pc = "raised",
                           ![t].exc = Exception("database", "PendingRollbackError",
                                                <<"session needs rollback">>)]
            /\ UNCHANGED <<sync_log, connection, transactions_rows, vendors_rows>>
       ELSE /\ sync_log' = [sync_log EXCEPT
                               ![t].status = "failed",
                               ![t].error_message = Some(sync[t].exc.msg)]
            /\ connection' = [connection EXCEPT
                                 !.sync_status = Some("failed"),
                                 !.sync_error = Some(sync[t].exc.msg)]
            /\ transactions_rows' = Committed(sync[t].session)
            /\ vendors_rows' = vendors_rows \cup sync[t].session.vendors
            /\ sync' = [sync EXCEPT ![t].pc = "raised",
                                    ![t].session = FreshSession]
    /\ UNCHANGED <<RequestVars, disconnect_response>>

\* DELETE /connections/{id}: revoke_tokens deactivates the connection after
\* auth_client.revoke() and answers False when the revocation raised
revoke_tokens(revoked) ==
    IF revoked
    THEN [success |-> TRUE,
          connection |-> [connection EXCEPT !.is_active = FALSE,
                                            !.sync_status = Some("disconnected")]]
    ELSE [success |-> FALSE, connection |-> connection]

disconnect_quickbooks ==
    /\ \E revoked \in BOOLEAN :
          LET outcome == revoke_tokens(revoked)
          IN /\ connection' = outcome.connection
             /\ disconnect_response' =
                   IF outcome.success
                   THEN Some("Successfully disconnected QuickBooks")
                   ELSE Some("Connection deactivated, but token revocation may have failed")
    /\ UNCHANGED <<RequestVars, sync_log, transactions_rows, vendors_rows, sync>>

NextSync ==
    \/ \E t \in SyncTasks : trigger_sync(t)
    \/ \E t \in SyncTasks : sync_connection_begin(t)
    \/ \E t \in SyncTasks : _sync_vendors(t)
    \/ \E t \in SyncTasks : _fetch_quickbooks_transactions(t)
    \/ \E t \in SyncTasks : _process_transaction(t)
    \/ \E t \in SyncTasks : _sync_transactions_commit(t)
    \/ \E t \in SyncTasks : sync_connection_complete(t)
    \/ \E t \in SyncTasks : sync_connection_except(t)
    \/ disconnect_quickbooks

SpecSync == InitSync /\ [][NextSync]_vars

(***************************************************************************)
(* Properties of the request flow, checked under Spec.                     *)
(***************************************************************************)
\* C1: within a request, the store is asked to execute a SQL string only if the
\* validator accepted that exact string earlier in the request; a rejected or
\* never-validated candidate is never executed
ExecutesOnlyValidated ==
    \A i \in 1..Len(executed) :
        /\ \E j \in 1..Len(validated) : validated[j] = <<executed[i], TRUE>>
        /\ \A j \in 1..Len(validated) : validated[j][1] = executed[i] => validated[j][2]
        /\ _validate_sql_safety(executed[i])[1]

\* a request whose candidate was accepted and then executed
ExecutedAfterAcceptance ==
    /\ pc = "log_success"
    /\ executed = <<sql>>
    /\ validated = << <<sql, TRUE>> >>

(***************************************************************************)
(* Properties of the validator, checked under SpecValidate: pc = "execute" *)
(* there means _validate_sql_safety accepted sql.                          *)
(***************************************************************************)
Statements(s) == {s.statements[i] : i \in 1..Len(s.statements)}

AcceptedTablesWhitelisted ==
    pc = "execute" =>
        \A statement \in Statements(sql) :
            \A node \in AllNodes(statement) :
                node.cls = <<"T","a","b","l","e">> =>
                    /\ node.db = None
                    /\ Lower(node.this) \in DOMAIN ALLOWED_SCHEMA

\* the select-list aliases of a statement: the aliases given in the select list of any
\* SELECT of its tree
SelectListAliases(statement) ==
    UNION { UNION { {Lower(node.alias) : node \in
                        {n \in AllNodes(select.expressions[i]) :
                            n.cls = <<"A","l","i","a","s">> /\ n.alias # None}}
                    : i \in 1..Len(select.expressions) }
            : select \in {n \in AllNodes(statement) : n.cls = <<"S","e","l","e","c","t">>} }

\* C4: every column reference of an accepted SQL string follows the column rule: the
\* qualifier of a qualified column resolves through the alias map to a whitelisted
\* table that lists the column (or the column is *); an unqualified column is a
\* select-list alias of the statement or is listed by some whitelisted table
AcceptedColumnsFollowRule ==
    pc = "execute" =>
        \A statement \in Statements(sql) :
            LET alias_map == extract_aliases(statement, FALSE).table_aliases
                select_aliases == SelectListAliases(statement)
            IN \A node \in AllNodes(statement) :
                  node.cls = <<"C","o","l","u","m","n">> =>
                      IF node.table # None
                      THEN LET table_name ==
                                   GetOr(alias_map, Lower(node.table), Lower(node.table))
                           IN /\ table_name \in DOMAIN ALLOWED_SCHEMA
                              /\ \/ Lower(node.this) \in ALLOWED_SCHEMA[table_name]
                                 \/ node.this = <<"*">>
                      ELSE \/ Lower(node.this) \in select_aliases
                           \/ \E t \in DOMAIN ALLOWED_SCHEMA :
                                 Lower(node.this) \in ALLOWED_SCHEMA[t]

\* an accepted SELECT with a column qualified by a table alias and an unqualified
\* column that is a select-list alias and no column of any table
AcceptedAliasedColumns ==
    /\ pc = "execute"
    /\ \E statement \in Statements(sql) :
          /\ \E node \in AllNodes(statement) :
                /\ node.cls = <<"C","o","l","u","m","n">>
                /\ node.table # None
                /\ Lower(node.table) \notin DOMAIN ALLOWED_SCHEMA
          /\ \E node \in AllNodes(statement) :
                /\ node.cls = <<"C","o","l","u","m","n">>
                /\ node.table = None
                /\ \A t \in DOMAIN ALLOWED_SCHEMA : Lower(node.this) \notin ALLOWED_SCHEMA[t]

\* whitelist membership, matched case-insensitively
InFunctionWhitelist(name) == \E f \in ALLOWED_FUNCTIONS : Upper(f) = Upper(name)

\* C5: every function-call node of an accepted SQL string, at any depth, is a
\* structural operator or a member of the function whitelist, matched
\* case-insensitively
AcceptedFunctionsWhitelisted ==
    pc = "execute" =>
        \A statement \in Statements(sql) :
            \A node \in AllNodes(statement) :
                node.cls \in FuncClasses =>
                    IF node.cls = <<"A","n","o","n","y","m","o","u","s">>
                    THEN InFunctionWhitelist(node.this)
                    ELSE \/ Upper(node.cls) \in ALLOWED_OPERATORS
                         \/ InFunctionWhitelist(node.cls)

\* an accepted SELECT that calls a whitelisted function by a lower-case name
AcceptedLowerCaseFunction ==
    /\ pc = "execute"
    /\ \E statement \in Statements(sql) :
          \E node \in AllNodes(statement) :
              /\ node.cls = <<"A","n","o","n","y","m","o","u","s">>
              /\ node.this # Upper(node.this)

(***************************************************************************)
(* The Query Log and the returned value, checked under Spec.               *)
(***************************************************************************)
\* C6: every call of execute_query has added exactly one record to the Query Log by
\* the time it finishes
OneLogRecordPerCall == pc \in {"returned", "raised"} => Len(log) = nreq

\* C7: the Query Log record of an attempt stores in generated_sql the final SQL text
\* attempted, also when the validator rejected it or its execution failed
LogStoresAttemptedSql ==
    (pc = "returned" /\ validated # <<>>) => log[Len(log)].generated_sql = sql

\* C8: a generation error, a validator rejection and an execution error each make
\* execute_query return a structured failure (success = false, an error message);
\* none leaves execute_query as an exception
FailuresAreReturned ==
    (pc \in {"returned", "raised"} /\ exc.kind \in {"generation", "rejection", "execution"})
        => /\ pc = "returned"
           /\ ret.success = FALSE
           /\ "error" \in DOMAIN ret
           /\ ret.error # <<>>

\* C9: every value execute_query returns carries success, sql, intent, results,
\* execution_time_ms and result_count, and error when it failed
ReturnCarriesAllFields ==
    pc = "returned" =>
        /\ {"success", "sql", "intent", "results", "execution_time_ms", "result_count"}
              \subseteq DOMAIN ret
        /\ ~ ret.success => "error" \in DOMAIN ret

\* the rendered template of the request's question passes the validator
HasValidTemplate ==
    LET template == _select_query_template(_classify_query_intent(query), parameters)
    IN template # None /\ _validate_sql_safety(template[1])[1]

QueryIntent == {
    "total_spend", "total_income", "spend_by_month", "income_by_month", "top_vendors",
    "spend_by_category", "transaction_count", "average_transaction",
    "recent_transactions", "anomalies_count", "unresolved_anomalies", "custom"}

\* the keyword groups in rule order, and the intents each group can give
KeywordGroups == <<
    {<<"t","o","t","a","l">>, <<"s","u","m">>, <<"s","p","e","n","d">>, <<"s","p","e","n","t">>},
    {<<"m","o","n","t","h","l","y">>, <<"m","o","n","t","h">>, <<"t","r","e","n","d">>},
    {<<"v","e","n","d","o","r">>, <<"m","e","r","c","h","a","n","t">>, <<"c","o","m","p","a","n","y">>},
    {<<"c","a","t","e","g","o","r","y">>},
    {<<"c","o","u","n","t">>, <<"n","u","m","b","e","r">>, <<"h","o","w"," ","m","a","n","y">>},
    {<<"a","v","e","r","a","g","e">>},
    {<<"r","e","c","e","n","t">>, <<"l","a","t","e","s","t">>, <<"l","a","s","t">>},
    {<<"a","n","o","m","a","l">>}>>
GroupIntents == <<
    {"total_spend", "total_income"},
    {"spend_by_month", "income_by_month"},
    {"top_vendors"},
    {"spend_by_category"},
    {"transaction_count"},
    {"average_transaction"},
    {"recent_transactions"},
    {"anomalies_count"}>>

\* the question contains, in any case, a keyword of group i
GroupMatches(i, question) == \E k \in KeywordGroups[i] : IsSubstring(k, Lower(question))

\* C13: the classifier is total: every question, the empty one included, gets one tag
\* of the fixed intent set, and recent_transactions when no keyword rule matches
ClassifierIsTotal ==
    pc = "classified" =>
        /\ intent \in QueryIntent
        /\ (\A i \in 1..Len(KeywordGroups) : ~ GroupMatches(i, query)) =>
              intent = "recent_transactions"

\* the empty question and a question without any keyword have been classified
NoKeywordClassified ==
    /\ pc = "classified"
    /\ query \in {<<>>, <<"p","l","e","a","s","e">>}
    /\ intent = "recent_transactions"

\* C20: the keyword groups are applied in the fixed order, by case-insensitive
\* substring match, and the first group that matches decides: anomalies_count is
\* returned only for a question with 'anomal' and no keyword of an earlier group
ClassifierFirstMatchWins ==
    pc = "classified" =>
        /\ \A i \in 1..Len(KeywordGroups) :
              (GroupMatches(i, query) /\ \A j \in 1..(i - 1) : ~ GroupMatches(j, query))
                  => intent \in GroupIntents[i]
        /\ intent = "anomalies_count" =>
              /\ GroupMatches(8, query)
              /\ \A j \in 1..7 : ~ GroupMatches(j, query)

\* a question with 'anomal' in it that an earlier group has claimed
AnomalyQuestionClaimedEarlier ==
    /\ pc = "classified"
    /\ GroupMatches(8, query)
    /\ intent # "anomalies_count"
    /\ query # Lower(query)

(***************************************************************************)
(* Further properties of the validator, checked under SpecValidate.        *)
(***************************************************************************)
\* the fixed list of dangerous keywords (EXECUTE and UNION ALL contain EXEC and UNION)
DangerousList == {
    <<"I","N","S","E","R","T">>, <<"U","P","D","A","T","E">>, <<"D","E","L","E","T","E">>, <<"D","R","O","P">>, <<"C","R","E","A","T","E">>, <<"A","L","T","E","R">>,
    <<"T","R","U","N","C","A","T","E">>, <<"E","X","E","C">>, <<"U","N","I","O","N">>}

\* the text of the statement contains a dangerous keyword, in any case
ContainsDangerousKeyword(statement) ==
    LET text == Upper(Str(statement))
    IN \E k \in DangerousList : IsSubstring(k, text)

\* C15: acceptance requires both checks to pass: a statement that is no SELECT is
\* rejected, and so is a statement whose text contains a keyword of the dangerous
\* list, also when the other check alone would have passed it
BothChecksRequired ==
    (pc \in {"execute", "except"} /\ sql.parses) =>
        ((\E statement \in Statements(sql) :
              statement.cls # <<"S","e","l","e","c","t">> \/ ContainsDangerousKeyword(statement))
            => pc = "except")

\* a SELECT with whitelisted tables, columns and functions only, rejected by the
\* textual scan alone
RejectedByScanAlone ==
    /\ pc = "except"
    /\ sql.parses
    /\ Len(sql.statements) = 1
    /\ sql.statements[1].cls = <<"S","e","l","e","c","t">>
    /\ exc.msg[2] = "SQL contains disallowed operations"
    /\ _validate_table_references(sql.statements[1])
    /\ _validate_function_usage(sql.statements[1])

\* the nodes of a SELECT that belong to its own query scope: the tree below it, not
\* entering a nested SELECT
RECURSIVE OwnNodes(_)
OwnNodes(node) ==
    {node} \cup UNION { IF Children(node)[i].cls = <<"S","e","l","e","c","t">> THEN {}
                        ELSE OwnNodes(Children(node)[i])
                        : i \in 1..Len(Children(node)) }

\* the tables that a qualifier denotes in the scope of one SELECT
TablesDenoted(select, qualifier) ==
    {t \in OwnNodes(select) :
        /\ t.cls = <<"T","a","b","l","e">>
        /\ Lower(IF t.alias # None THEN t.alias ELSE t.this) = Lower(qualifier)}

\* C16: a qualified column a.c of an accepted statement is in the whitelist of the
\* table that a is bound to in the query scope of the reference: a binding of the
\* same alias in another scope (outer query or subquery) does not let the column pass
AliasResolvedInScope ==
    pc = "execute" =>
        \A statement \in Statements(sql) :
            \A select \in {n \in AllNodes(statement) : n.cls = <<"S","e","l","e","c","t">>} :
                \A c \in {n \in OwnNodes(select) : n.cls = <<"C","o","l","u","m","n">> /\ n.table # None} :
                    \A t \in TablesDenoted(select, c.table) :
                        /\ Lower(t.this) \in DOMAIN ALLOWED_SCHEMA
                        /\ \/ c.this = <<"*">>
                           \/ Lower(c.this) \in ALLOWED_SCHEMA[Lower(t.this)]

\* the column rule without select-list aliases: a qualified column is listed by the
\* whitelisted table its qualifier resolves to, an unqualified one by some table
BaseColumn(node, statement) ==
    IF node.table # None
    THEN LET alias_map == extract_aliases(statement, FALSE).table_aliases
             table_name == GetOr(alias_map, Lower(node.table), Lower(node.table))
         IN /\ table_name \in DOMAIN ALLOWED_SCHEMA
            /\ \/ Lower(node.this) \in ALLOWED_SCHEMA[table_name]
               \/ node.this = <<"*">>
    ELSE \/ node.this = <<"*">>
         \/ \E t \in DOMAIN ALLOWED_SCHEMA : Lower(node.this) \in ALLOWED_SCHEMA[t]

\* an unqualified name that is a select-list alias of the statement
IsAliasReference(node, statement) ==
    /\ node.cls = <<"C","o","l","u","m","n">>
    /\ node.table = None
    /\ Lower(node.this) \in SelectListAliases(statement)

\* C17: an unqualified name that is a select-list alias is accepted wherever it is
\* used: a SELECT whose tables are whitelisted and whose columns are base columns or
\* references to a select-list alias is never rejected for its references
AliasReferencesAccepted ==
    (/\ pc \in {"execute", "except"}
     /\ sql.parses
     /\ Len(sql.statements) = 1
     /\ sql.statements[1].cls = <<"S","e","l","e","c","t">>
     /\ ~ ContainsDangerousKeyword(sql.statements[1])
     /\ \A node \in AllNodes(sql.statements[1]) :
           /\ node.cls = <<"T","a","b","l","e">> => Lower(node.this) \in DOMAIN ALLOWED_SCHEMA
           /\ node.cls = <<"C","o","l","u","m","n">> =>
                 \/ IsAliasReference(node, sql.statements[1])
                 \/ BaseColumn(node, sql.statements[1]))
        => (pc = "except" => exc.msg[2] = "SQL uses disallowed functions")

\* an accepted SELECT that uses a select-list alias, which is no column of any
\* table, under ORDER BY, under HAVING and in the select list ahead of the item
\* that defines it
AliasUsedInOrderByAccepted ==
    /\ pc = "execute"
    /\ Len(sql.statements) = 1
    /\ IsAliasReference(sql.statements[1].expressions[1], sql.statements[1])
    /\ \A cls \in {<<"O","r","d","e","r">>, <<"H","a","v","i","n","g">>} :
          \E clause \in AllNodes(sql.statements[1]) :
              /\ clause.cls = cls
              /\ \E node \in AllNodes(clause) :
                    /\ IsAliasReference(node, sql.statements[1])
                    /\ \A t \in DOMAIN ALLOWED_SCHEMA :
                          Lower(node.this) \notin ALLOWED_SCHEMA[t]

\* a SELECT that joins transactions t to vendors v (the join of scenario E), with a
\* select list of columns qualified by t or v
JoinAliasBinding == (<<"t">> :> <<"t","r","a","n","s","a","c","t","i","o","n","s">>) @@ (<<"v">> :> <<"v","e","n","d","o","r","s">>)
IsAliasJoin(s) ==
    /\ s.parses
    /\ Len(s.statements) = 1
    /\ s.statements[1].cls = <<"S","e","l","e","c","t">>
    /\ Len(s.statements[1].args) >= 2
    /\ SubSeq(s.statements[1].args, 1, 2) =
          <<From(Tbl(None, <<"t","r","a","n","s","a","c","t","i","o","n","s">>, <<"t">>)),
            Join(None, Tbl(None, <<"v","e","n","d","o","r","s">>, <<"v">>),
                 OnEq(Col(<<"t">>, <<"v","e","n","d","o","r","_","i","d">>), Col(<<"v">>, <<"i","d">>)))>>
    /\ \A i \in 1..Len(s.statements[1].expressions) :
          /\ s.statements[1].expressions[i].cls = <<"C","o","l","u","m","n">>
          /\ Lower(s.statements[1].expressions[i].table) \in DOMAIN JoinAliasBinding

\* the statement passes the validator when its select list is replaced by t.*
RestPasses(statement) ==
    _validate_sql_safety(Parsed(<<Sel(<<Col(<<"t">>, <<"*">>)>>, statement.args)>>))[1]

\* C18: in a SELECT that joins transactions t and vendors v, a qualified column of
\* the select list passes exactly when it is * or is in the whitelist of the table
\* its alias stands for (t: transactions, v: vendors): t.amount and v.name pass,
\* v.amount and t.name cause rejection
JoinAliasesResolve ==
    (pc \in {"execute", "except"} /\ IsAliasJoin(sql)) =>
        LET listed ==
              \A i \in 1..Len(sql.statements[1].expressions) :
                  LET c == sql.statements[1].expressions[i]
                  IN \/ c.this = <<"*">>
                     \/ Lower(c.this) \in ALLOWED_SCHEMA[JoinAliasBinding[Lower(c.table)]]
        IN /\ pc = "execute" => listed
           /\ (listed /\ RestPasses(sql.statements[1])) => pc = "execute"

\* the reason of the first check that fails on a statement, "" when none fails
FirstFailingCheck(statement) ==
    IF statement.cls # <<"S","e","l","e","c","t">> THEN "Only SELECT statements are allowed"
    ELSE IF ContainsDangerousKeyword(statement) THEN "SQL contains disallowed operations"
    ELSE IF ~ check_references(statement, extract_aliases(statement, FALSE))
    THEN "SQL references disallowed tables or columns"
    ELSE IF ~ check_functions(statement) THEN "SQL uses disallowed functions"
    ELSE ""

\* C19: the checks run per statement in the order statement type, keyword scan,
\* table/column walk, function walk, and a rejection carries the reason of the first
\* check that fails on the first failing statement; a statement that is no SELECT is
\* rejected as such whatever the walks would have said
FirstFailingCheckDecides ==
    (pc \in {"execute", "except"} /\ sql.parses /\ sql.statements # <<>>) =>
        \A i \in 1..Len(sql.statements) :
            (\A j \in 1..(i - 1) : FirstFailingCheck(sql.statements[j]) = "") =>
                LET reason == FirstFailingCheck(sql.statements[i])
                IN IF reason # ""
                   THEN pc = "except" /\ exc.msg[2] = reason
                   ELSE i = Len(sql.statements) => pc = "execute"

\* scenario B: DROP TABLE transactions rejected as a statement that is no SELECT
DropTableRejectedByType ==
    /\ pc = "except"
    /\ sql = Parsed(<<DropTable>>)
    /\ exc.msg[2] = "Only SELECT statements are allowed"

(***************************************************************************)
(* Properties of the Template Library, checked under SpecTemplate.         *)
(***************************************************************************)
\* the conjuncts of a condition, left to right
RECURSIVE Conjuncts(_)
Conjuncts(node) ==
    IF node.cls = <<"A","n","d">> THEN Conjuncts(node.args[1]) \o Conjuncts(node.args[2])
    ELSE <<node>>

\* the conjuncts of the WHERE clause of a statement
WhereConjuncts(statement) ==
    LET clauses == SelectSeq(statement.args, LAMBDA n : n.cls = <<"W","h","e","r","e">>)
    IN IF clauses = <<>> THEN <<>> ELSE Conjuncts(clauses[1].args[1])

\* a date written as YYYY-MM-DD: four, two and two digits
IsoDate(date) ==
    <<Digits[(date.year \div 1000) + 1], Digits[((date.year \div 100) % 10) + 1],
      Digits[((date.year \div 10) % 10) + 1], Digits[(date.year % 10) + 1], "-",
      Digits[(date.month \div 10) + 1], Digits[(date.month % 10) + 1], "-",
      Digits[(date.day \div 10) + 1], Digits[(date.day % 10) + 1]>>

\* the comparisons the date filter is to consist of
ExpectedDateFilter(params) ==
    LET lower == IF params.date_from # None
                 THEN <<Op(<<"G","T","E">>, <<Col(None, <<"t","r","a","n","s","a","c","t","i","o","n","_","d","a","t","e">>),
                                      Lit(IsoDate(params.date_from[1]))>>)>>
                 ELSE <<>>
        upper == IF params.date_to # None
                 THEN <<Op(<<"L","T","E">>, <<Col(None, <<"t","r","a","n","s","a","c","t","i","o","n","_","d","a","t","e">>),
                                      Lit(IsoDate(params.date_to[1]))>>)>>
                 ELSE <<>>
    IN IF lower \o upper # <<>> THEN lower \o upper
       ELSE <<Op(<<"E","Q">>, <<Lit(<<"1">>), Lit(<<"1">>)>>)>>

\* a comparison of transaction_date with a literal, or 1=1
IsDateFilterConjunct(node) ==
    \/ node = Op(<<"E","Q">>, <<Lit(<<"1">>), Lit(<<"1">>)>>)
    \/ /\ node.cls \in {<<"G","T","E">>, <<"L","T","E">>}
       /\ node.args[1] = Col(None, <<"t","r","a","n","s","a","c","t","i","o","n","_","d","a","t","e">>)

WhitelistedColumnsUsable ==
    \A table \in DOMAIN ALLOWED_SCHEMA : \A column \in ALLOWED_SCHEMA[table] :
        (pc \in {"execute", "except"} /\ sql = ColumnQuery(table, column))
            => pc = "execute"

TablesNamed(statement) == {n \in AllNodes(statement) : n.cls = <<"T","a","b","l","e">>}

\* C25: in every rendered template each column reference that is no select-list
\* alias is a whitelisted column of a table named in the template's own FROM/JOIN
\* clauses: of the table its qualifier stands for, or of any of them when it has no
\* qualifier; this includes transaction_date of the date filter
TemplateColumnsBelongToItsTables ==
    pc = "rendered" =>
        LET statement == sql.statements[1]
        IN \A c \in {n \in AllNodes(statement) : n.cls = <<"C","o","l","u","m","n">>} :
              \/ IsAliasReference(c, statement)
              \/ /\ c.table # None
                 /\ \E t \in TablesDenoted(statement, c.table) :
                       /\ Lower(t.this) \in DOMAIN ALLOWED_SCHEMA
                       /\ Lower(c.this) \in ALLOWED_SCHEMA[Lower(t.this)]
              \/ /\ c.table = None
                 /\ \E t \in TablesNamed(statement) :
                       /\ Lower(t.this) \in DOMAIN ALLOWED_SCHEMA
                       /\ Lower(c.this) \in ALLOWED_SCHEMA[Lower(t.this)]

(***************************************************************************)
(* Candidates of several statements, checked under SpecValidate.           *)
(***************************************************************************)
\* C26: a candidate of several statements is accepted if and only if each of its
\* statements is accepted when validated on its own; aliases of one statement have
\* no effect on the checking of another
ValidationIsCompositional ==
    (pc \in {"execute", "except"} /\ sql.parses /\ sql.statements # <<>>) =>
        (pc = "execute" <=>
            \A i \in 1..Len(sql.statements) :
                _validate_sql_safety(Parsed(<<sql.statements[i]>>))[1])

\* scenario E followed by a statement that uses its alias t without binding it:
\* rejected for the references of the second statement
AliasOfOtherStatementRejected ==
    /\ pc = "except"
    /\ sql = Parsed(<<ScenarioE, UnboundAliases>>)
    /\ exc.msg[2] = "SQL references disallowed tables or columns"


(***************************************************************************)
(* Properties of the QuickBooks synchronisation, checked under SpecSync.   *)
(***************************************************************************)
\* C27: after any sequence or interleaving of sync_connection runs of a
\* connection, two concurrent background syncs and a fetched batch naming the
\* same Id twice included, the store holds at most one transaction row for
\* each quickbooks_id of the connection: an item whose Id is stored already
\* is updated or skipped, never created again.
OneRowPerQuickBooksId ==
    \A i, j \in 1..Len(transactions_rows) :
        transactions_rows[i].quickbooks_id = transactions_rows[j].quickbooks_id => i = j

\* C28: a call of sync_connection that terminates leaves its sync log in a
\* terminal status and the connection out of "in_progress": when it returns,
\* the log is "completed", the connection's sync_status is "success" and
\* created + updated + skipped = fetched; when it raises, the log is "failed"
\* with an error message and the connection's sync_status is "failed".
SyncEndsAsSpecified ==
    [][\A t \in SyncTasks :
          /\ (sync[t].pc # "returned" /\ sync'[t].pc = "returned") =>
                /\ sync_log'[t].status = "completed"
                /\ connection'.sync_status = Some("success")
                /\ sync_log'[t].transactions_created + sync_log'[t].transactions_updated
                      + sync_log'[t].transactions_skipped
                   = sync_log'[t].transactions_fetched
          /\ (sync[t].pc # "raised" /\ sync'[t].pc = "raised") =>
                /\ sync_log'[t].status = "failed"
                /\ sync_log'[t].error_message # None
                /\ connection'.sync_status = Some("failed")]_vars

\* C29: once DELETE /connections/{id} has answered, the connection is
\* deactivated (is_active is false), whether the remote revocation of the
\* tokens succeeded or not.
DisconnectDeactivates ==
    disconnect_response # None => ~ connection.is_active

(***************************************************************************)
(* POST /query, checked under Spec.  query_data calls execute_query inside *)
(* a try whose except clause catches Exception; HTTPException is an        *)
(* Exception, and its str is the status code, a colon and the detail.      *)
(***************************************************************************)
HTTPException(status_code, detail) == [status_code |-> status_code, detail |-> detail]

\* the answer of query_data when execute_query ended at position (returned
\* or raised) with the value result or the exception e
query_data(position, result, e) ==
    IF position = "raised"
    THEN HTTPException(500, e.msg)
    ELSE IF ~ result.success
    THEN LET rejected == HTTPException(400, result.error)
         IN HTTPException(500, <<"400: ">> \o rejected.detail)
    ELSE [status_code |-> 200, detail |-> None]

\* C30: when execute_query reports success = false, POST /query answers with
\* status 400 and the error text; status 500 is answered only when an
\* exception left execute_query.
FailureAnswers400 ==
    pc \in {"returned", "raised"} =>
        LET response == query_data(pc, ret, raised)
        IN /\ (pc = "returned" /\ ~ ret.success) =>
                 response.status_code = 400 /\ response.detail = ret.error
           /\ response.status_code = 500 => pc = "raised"

====
